---- MODULE Spec2Model ----
(***************************************************************************)
(* Farm scheduler of the Travian bot: the farm list store and its JSON     *)
(* persistence (modules/farming.py), the raid scheduling loops             *)
(* (send_all_raids, auto_raid_loop) and the tile scanner                   *)
(* (modules/farm_finder.py).                                               *)
(*                                                                         *)
(* The farms dict is a sequence of records in insertion order whose key is *)
(* the record's id.  Times are whole seconds.  None is the number -1.      *)
(***************************************************************************)
EXTENDS Integers, Sequences, FiniteSets, TLC

\* ------------------------------------------------------------------------
\* Bounds of the model
\* ------------------------------------------------------------------------
MaxFarms == 3
StartClock == 100
Horizon == 7
MaxRuns == 1
MaxMenuOps == 1
MaxStoreOps == 3
MaxScans == 2
MaxParseErrors == 1
MaxListOps == 1
MaxMgmtOps == 4
MaxCoord == 4
MaxTaskOps == 4
MaxTaskRuns == 2
MaxPersistOps == 2
MaxCenter == 3
MaxSpiralRadius == 3
MaxLoops == 1

\* ------------------------------------------------------------------------
\* Program constants
\* ------------------------------------------------------------------------
None == -1
RETRY_DELAY == 60
POLL_SLEEPS == 7
DEFAULT_RAID_INTERVAL == 300
DEFAULT_SERVER_SPEED == 1
DEFAULT_TRIBE == "romans"

TROOP_SPEEDS ==
    [romans  |-> [t1 |-> 6, t2 |-> 5, t3 |-> 7,  t4 |-> 16, t5 |-> 14, t6 |-> 10,
                  t7 |-> 4, t8 |-> 3, t9 |-> 4,  t10 |-> 5, t11 |-> 35],
     gauls   |-> [t1 |-> 7, t2 |-> 6, t3 |-> 17, t4 |-> 19, t5 |-> 16, t6 |-> 13,
                  t7 |-> 4, t8 |-> 3, t9 |-> 5,  t10 |-> 5, t11 |-> 35],
     teutons |-> [t1 |-> 7, t2 |-> 7, t3 |-> 6,  t4 |-> 9,  t5 |-> 10, t6 |-> 9,
                  t7 |-> 4, t8 |-> 3, t9 |-> 4,  t10 |-> 5, t11 |-> 35]]

\* ------------------------------------------------------------------------
\* Inputs the operator or the game page can supply
\* ------------------------------------------------------------------------
EmptyDict == <<>>
\* a troops dict is its items() in insertion order: <<key, amount>> pairs
TroopMaps == { EmptyDict, << <<"t1", 10>> >>, << <<"t1", 0>> >> }
\* what the operator types for a new farm: coordinates and troops; (0, 0)
\* is the home village
NewFarms ==
    { <<30, 0, << <<"t1", 10>> >> >>, <<0, 0, << <<"t1", 10>> >> >>,
      <<0, 0, << <<"t1", 0>> >> >>, <<30, 0, EmptyDict>> }
FarmNames == { "Oasis" }
FarmNotes == { "" }
\* one-way durations parse_travel_time_from_page can return
PageReadings == { None, 0, 3 }
\* seconds one dispatch takes (page loads and the sleeps of send_raid)
DispatchSecs == { 3 }
\* tribe, server speed and home coordinates typed at the auto-raid prompt
ParamChoices == { <<"romans", 1, 0, 0>>, <<"gauls", 2, 3, 4>> }
\* the answers when the operator keeps the defaults at every prompt
StartParams == { <<"romans", 1, 0, 0>> }

\* ------------------------------------------------------------------------
\* State
\* ------------------------------------------------------------------------
VARIABLES
    farms,           \* FarmListManager.farms: dict id -> FarmTarget
    farm_counter,    \* FarmListManager.farm_counter
    default_troops,  \* FarmListManager.default_troops
    raid_interval,   \* FarmListManager.raid_interval
    tribe,           \* FarmListManager.tribe
    server_speed,    \* FarmListManager.server_speed
    home_x,          \* FarmListManager.home_x
    home_y,          \* FarmListManager.home_y
    file,            \* farm_list.json: <<>> when missing, <<data>> otherwise
    clock,           \* time.time()
    pc,              \* where the foreground thread is
    iter,            \* the list a for-loop iterates (farm ids)
    idx,             \* position of that for-loop
    now,             \* the local `now` of auto_raid_loop
    stop,            \* StopFlag.stop_event
    stats,           \* stats of auto_raid_loop
    results,         \* results of send_all_raids
    log,             \* history: dispatch attempts of the current pass
    passDue,         \* history: ids the pass was expected to dispatch to
    passEnabled,     \* history: number of enabled farms when the pass began
    passKind,        \* history: "none", "send_all", "sweep" or "poll"
    lastOp,          \* history: last completed operation
    runs,            \* history: raid operations started so far
    menuOps,         \* history: store operations done so far
    saved,           \* history: in-memory state at the last save_farms
    issued           \* history: the add_farm calls so far, oldest first

storeVars == <<farms, farm_counter, default_troops, raid_interval, tribe,
               server_speed, home_x, home_y, file>>
loopVars == <<clock, pc, iter, idx, now, stop, stats, results>>
histVars == <<log, passDue, passEnabled, passKind, lastOp, runs, menuOps,
              saved, issued>>
raidVars == <<storeVars, loopVars, histVars>>

\* The scanner (modules/farm_finder.py) works on the multi-list store: named
\* farm lists, one of them active, and the scan history.
VARIABLES
    farm_lists,        \* FarmListManager.farm_lists: dict name -> farm list
    active_list_name,  \* FarmListManager.active_list_name
    scan_history,      \* FarmListManager.scan_history['scanned_coords']
    lists_file,        \* what save_farms last wrote of the multi-list store
    world,             \* the map: which tile position_details.php shows where
    scan_pc,           \* where scan_area is: "menu" or "loop"
    scan_args,         \* center_x, center_y, scan_filter, target_list
    coords,            \* the local `coords` of scan_area
    scan_i,            \* position of its for loop (1-based)
    scan_stats,        \* the local `stats` of scan_area
    scan_stop,         \* the StopFlag handed to scan_area
    scan_log,          \* history: one entry per tile the loop visited
    prev_scan,         \* history: the scan_area call that returned last
    rerun,             \* history: this call repeats a completed scan at once
    parse_errors,      \* history: classifier failures so far
    scans,             \* history: scan_area calls so far
    listOps,           \* history: list operations so far
    list_op            \* history: the last list management call and its outcome

listVars == <<farm_lists, active_list_name, scan_history, lists_file>>
scanLocals == <<scan_pc, scan_args, coords, scan_i, scan_stats, scan_stop>>
scanHist == <<scan_log, prev_scan, rerun, parse_errors, scans, listOps,
              list_op>>
scanVars == <<listVars, world, scanLocals, scanHist>>

\* estimate_travel_time called on its own, and the task executor
\* (modules/task_queue.py) with the threads that drive the browser
VARIABLES
    estimate,          \* history: the last estimate_travel_time comparison
    tasks,             \* TaskQueue.tasks: dict id -> Task
    task_counter,      \* TaskQueue.task_counter
    running,           \* TaskExecutor.running
    stop_flag,         \* TaskQueue.stop_flag (threading.Event)
    threads,           \* the run_loop threads started so far
    fg,                \* what the foreground (menu) thread does
    taskOps            \* history: task menu choices so far

estVars == <<estimate>>
taskVars == <<tasks, task_counter, running, stop_flag, threads, fg, taskOps>>

\* a process that dies inside save_farms
VARIABLES
    file_before        \* history: the file when the interrupted save began

crashVars == <<file_before>>

nonRaidVars == <<scanVars, estVars, taskVars, crashVars>>
nonScanVars == <<raidVars, estVars, taskVars, crashVars>>

vars == <<raidVars, scanVars, estVars, taskVars, crashVars>>

\* ------------------------------------------------------------------------
\* Sequence helpers
\* ------------------------------------------------------------------------
RECURSIVE SeqSum(_)
SeqSum(s) == IF s = <<>> THEN 0 ELSE Head(s) + SeqSum(Tail(s))

Range(s) == { s[i] : i \in 1..Len(s) }

\* ------------------------------------------------------------------------
\* FarmTarget and the farms dict
\* ------------------------------------------------------------------------
FarmFields == { "id", "name", "x", "y", "troops", "last_raid", "raids_sent",
                "enabled", "notes", "travel_time", "next_raid_at" }

\* dataclass FarmTarget with its field defaults
FarmTarget(id, name, x, y, troops, notes) ==
    [id |-> id, name |-> name, x |-> x, y |-> y, troops |-> troops,
     last_raid |-> <<>>, raids_sent |-> 0, enabled |-> TRUE, notes |-> notes,
     travel_time |-> 0, next_raid_at |-> 0]

FarmIds(fs) == { fs[i].id : i \in 1..Len(fs) }

\* self.farms[farm_id]
FarmById(fs, id) == fs[CHOOSE i \in 1..Len(fs) : fs[i].id = id]

\* self.farms[farm.id] = farm : replaces in place, or appends a new key
DictSet(fs, farm) ==
    IF farm.id \in FarmIds(fs)
    THEN [i \in 1..Len(fs) |-> IF fs[i].id = farm.id THEN farm ELSE fs[i]]
    ELSE Append(fs, farm)

\* del self.farms[farm_id]
DictDel(fs, id) == SelectSeq(fs, LAMBDA f : f.id # id)

get_enabled_farms_mut(fs) == fs
get_enabled_farms(fs) == SelectSeq(fs, LAMBDA f : f.enabled)

Ids(fs) == [i \in 1..Len(fs) |-> fs[i].id]

\* ------------------------------------------------------------------------
\* Persistence
\* ------------------------------------------------------------------------
\* dataclasses.asdict(farm): one key per dataclass field
asdict_mut(farm) == [k \in FarmFields \ {"enabled"} |-> farm[k]]
asdict(farm) == [k \in FarmFields |-> farm[k]]

\* FarmTarget(**farm_data): missing keys take the dataclass defaults
FromDict(d) ==
    LET get(k, dflt) == IF k \in DOMAIN d THEN d[k] ELSE dflt
    IN  [id |-> d["id"], name |-> d["name"], x |-> d["x"], y |-> d["y"],
         troops |-> d["troops"],
         last_raid |-> get("last_raid", <<>>),
         raids_sent |-> get("raids_sent", 0),
         enabled |-> get("enabled", TRUE),
         notes |-> get("notes", ""),
         travel_time |-> get("travel_time", 0),
         next_raid_at |-> get("next_raid_at", 0)]

\* the dict save_farms dumps
SaveData(fs, counter, dt, ri, tr, ss, hx, hy) ==
    [counter |-> counter, default_troops |-> dt, raid_interval |-> ri,
     tribe |-> tr, server_speed |-> ss, home_x |-> hx, home_y |-> hy,
     farms |-> [i \in 1..Len(fs) |-> asdict(fs[i])]]

\* the in-memory state of a FarmListManager
Manager(fs, counter, dt, ri, tr, ss, hx, hy) ==
    [farms |-> fs, farm_counter |-> counter, default_troops |-> dt,
     raid_interval |-> ri, tribe |-> tr, server_speed |-> ss,
     home_x |-> hx, home_y |-> hy]

CurrentManager ==
    Manager(farms, farm_counter, default_troops, raid_interval, tribe,
            server_speed, home_x, home_y)

\* __init__ before load_farms
FreshManager ==
    Manager(<<>>, 0, EmptyDict, DEFAULT_RAID_INTERVAL, DEFAULT_TRIBE,
            DEFAULT_SERVER_SPEED, 0, 0)

\* json.dump writes the text in pieces: the scalar keys, one piece per farm,
\* the closing brace
DumpLen(data) == Len(data.farms) + 2

\* The contents of the file: <<data>> is the whole text json.dump writes for
\* data, <<data, cut>> the first `cut` pieces of it.  json.load raises on
\* every text that stops before the closing brace.
Cut(f) == Len(f) = 2
JsonLoads(f) == ~Cut(f)

\* FarmTarget(**farm_data) raises TypeError when a field without default is
\* missing or a key is no field of the dataclass
REQUIRED_FIELDS == {"id", "name", "x", "y", "troops"}
FarmDataFails(d) ==
    ~(REQUIRED_FIELDS \subseteq DOMAIN d /\ DOMAIN d \subseteq FarmFields)

\* the for loop over data['farms'] up to the first entry that raises
RECURSIVE LoadFarmList(_, _)
LoadFarmList(fs, ds) ==
    IF ds = <<>> \/ FarmDataFails(Head(ds)) THEN fs
    ELSE LoadFarmList(DictSet(fs, FromDict(Head(ds))), Tail(ds))

\* except Exception: print, self.farms = {}
ExceptFarms_mut(read) == read
ExceptFarms(read) == <<>>

\* load_farms on a manager m with the file contents f: the manager after it
\* and what it printed
LoadFarms(m, f) ==
    IF f = <<>> THEN [manager |-> m, printed |-> "nothing"]
    ELSE IF ~JsonLoads(f)
    THEN [manager |-> [m EXCEPT !.farms = ExceptFarms(m.farms)],
          printed |-> "Could not load farms"]
    ELSE LET data == f[1]
             read == LoadFarmList(m.farms, data.farms)
             raised == \E i \in 1..Len(data.farms) : FarmDataFails(data.farms[i])
         IN  [manager |->
                  Manager(IF raised THEN ExceptFarms(read) ELSE read,
                          data.counter, data.default_troops,
                          data.raid_interval, data.tribe, data.server_speed,
                          data.home_x, data.home_y),
              printed |-> IF raised THEN "Could not load farms" ELSE "Loaded"]

load_farms(m, f) == LoadFarms(m, f).manager

\* ------------------------------------------------------------------------
\* Travel time
\* ------------------------------------------------------------------------
\* floor(sqrt(n))
ISqrt(n) == CHOOSE r \in 0..n : r * r <= n /\ (r + 1) * (r + 1) > n

\* One refinement step: from r = floor(sqrt(N)) and rem = N - r*r to the
\* same pair for N * b * b.
SqrtScale(pair, b) ==
    LET Step(p) ==
            LET r == p[1]
                rem == p[2]
                j == CHOOSE k \in 0..(b - 1) :
                         /\ 2 * b * r * k + k * k <= b * b * rem
                         /\ (k = b - 1 \/ 2 * b * r * (k + 1) + (k + 1) * (k + 1) > b * b * rem)
            IN  <<b * r + j, b * b * rem - 2 * b * r * j - j * j>>
    IN  CHOOSE out \in { Step(p) : p \in { pair } } : TRUE

RECURSIVE SqrtScaleAll(_, _)
SqrtScaleAll(pair, bs) ==
    IF bs = <<>> THEN pair ELSE SqrtScaleAll(SqrtScale(pair, Head(bs)), Tail(bs))

\* floor(7200 * sqrt(d2)), 7200 = 2^5 * 3^2 * 5^2, without leaving 32 bits
Sqrt7200(d2) ==
    LET r0 == ISqrt(d2)
    IN  SqrtScaleAll(<<r0, d2 - r0 * r0>>, <<2, 2, 2, 2, 2, 3, 3, 5, 5>>)[1]

\* the speeds of the troop kinds that count: amount > 0 and in the table
CountedSpeeds_mut(troops, tribe_speeds) ==
    { tribe_speeds[troops[i][1]] :
        i \in { k \in 1..Len(troops) : troops[k][1] \in DOMAIN tribe_speeds } }
CountedSpeeds(troops, tribe_speeds) ==
    { tribe_speeds[troops[i][1]] :
        i \in { k \in 1..Len(troops) :
                  troops[k][2] > 0 /\ troops[k][1] \in DOMAIN tribe_speeds } }

Min(S) == CHOOSE m \in S : \A o \in S : m <= o

\* estimate_travel_time: int(sqrt(dx^2 + dy^2) / (slowest * server_speed)
\* * 2 * 3600).  Computed exactly; for the squared distances used here
\* (below 169, and 745 and 900) the float evaluation of the source gives
\* the same integer.
estimate_travel_time_mut(farm, tr, ss, hx, hy) ==
    LET d2 == (farm.x - hx) * (farm.x - hx)
        tribe_speeds == IF tr \in DOMAIN TROOP_SPEEDS THEN TROOP_SPEEDS[tr]
                        ELSE TROOP_SPEEDS["romans"]
        speeds == CountedSpeeds(farm.troops, tribe_speeds)
    IN  IF d2 = 0 THEN 0
        ELSE IF speeds = {} THEN 0
        ELSE Sqrt7200(d2) \div (Min(speeds) * ss)
estimate_travel_time(farm, tr, ss, hx, hy) ==
    LET d2 == (farm.x - hx) * (farm.x - hx) + (farm.y - hy) * (farm.y - hy)
        tribe_speeds == IF tr \in DOMAIN TROOP_SPEEDS THEN TROOP_SPEEDS[tr]
                        ELSE TROOP_SPEEDS["romans"]
        speeds == CountedSpeeds(farm.troops, tribe_speeds)
    IN  IF d2 = 0 THEN 0
        ELSE IF speeds = {} THEN 0
        ELSE Sqrt7200(d2) \div (Min(speeds) * ss)

\* datetime.now().strftime('%H:%M:%S')
strftime(t) == <<(t \div 3600) % 24, (t \div 60) % 60, t % 60>>

\* ------------------------------------------------------------------------
\* send_raid
\* ------------------------------------------------------------------------
HasPositive(troops) == \E i \in 1..Len(troops) : troops[i][2] > 0

\* How a dispatch can end.  "no_troops": no troop input was filled (certain
\* when no amount is positive).  "has_error", "no_confirm": the page after
\* submit.  "exception": the browser raised.  "ok": the raid was confirmed.
Outcomes(farm) ==
    {"no_troops", "exception"} \cup
    (IF HasPositive(farm.troops) THEN {"has_error", "no_confirm", "ok"} ELSE {})

SendRaidReturn(outcome) == outcome = "ok"

\* the travel_time send_raid leaves on the farm after a confirmed raid
NewTravelTime_mut(farm, one_way, estimated) ==
    IF one_way # None /\ one_way # 0 THEN one_way * 2
    ELSE IF estimated > 0 THEN estimated ELSE farm.travel_time
NewTravelTime(farm, one_way, estimated) ==
    IF one_way # None /\ one_way # 0 THEN one_way * 2
    ELSE IF farm.travel_time = 0
         THEN (IF estimated > 0 THEN estimated ELSE farm.travel_time)
         ELSE farm.travel_time

\* the FarmTarget after send_raid(farm) ended with `outcome` at time t
send_raid_mut(farm, outcome, one_way, estimated, t) ==
    IF outcome = "ok"
    THEN LET tt == IF farm.travel_time = 0 /\ estimated > 0 THEN estimated
                   ELSE NewTravelTime(farm, one_way, estimated)
         IN  [farm EXCEPT !.travel_time = tt,
                          !.next_raid_at = IF tt > 0 THEN t + tt ELSE @,
                          !.last_raid = strftime(t),
                          !.raids_sent = @ + 1]
    ELSE IF outcome = "no_troops" THEN farm
    ELSE [farm EXCEPT !.next_raid_at = t + RETRY_DELAY]

send_raid(farm, outcome, one_way, estimated, t) ==
    IF outcome = "no_troops" THEN farm
    ELSE IF outcome \in {"has_error", "no_confirm", "exception"}
    THEN [farm EXCEPT !.next_raid_at = t + RETRY_DELAY]
    ELSE LET tt == NewTravelTime(farm, one_way, estimated)
         IN  [farm EXCEPT !.travel_time = tt,
                          !.next_raid_at = IF tt > 0 THEN t + tt ELSE @,
                          !.last_raid = strftime(t),
                          !.raids_sent = @ + 1]

\* send_raid calls save_farms on every path but the "no_troops" return
SendRaidSaves(outcome) == outcome # "no_troops"

\* ------------------------------------------------------------------------
\* Initial state: a first start with no farm_list.json
\* ------------------------------------------------------------------------
NoStats == [total_sent |-> 0, total_failed |-> 0]
NoResults == [sent |-> 0, failed |-> 0, skipped |-> 0]

\* farm_list.json as an earlier session can have left it: farm 1 was raided
\* with a 5 s one-way reading 40 s before this start, farm 2 failed with a
\* page error 58 s before this start and waits for its retry.
PriorFarms ==
    << [FarmTarget(1, "Oasis", 30, 0, << <<"t1", 10>> >>, "") EXCEPT
            !.travel_time = 10,
            !.next_raid_at = StartClock - 40 + 10,
            !.last_raid = strftime(StartClock - 40),
            !.raids_sent = 1],
       [FarmTarget(2, "Oasis", 0, 0, << <<"t1", 10>> >>, "") EXCEPT
            !.next_raid_at = StartClock - 58 + RETRY_DELAY] >>

PriorSession ==
    SaveData(PriorFarms, 2, EmptyDict, DEFAULT_RAID_INTERVAL, DEFAULT_TRIBE,
             DEFAULT_SERVER_SPEED, 0, 0)

InitFiles == { <<>>, <<PriorSession>> }

\* what is remembered of an add_farm call: the id it returned, the ids
\* returned earlier whose farms were gone by then, and whether the store had
\* just been loaded from the file
Issued(id, gone, after_load) ==
    [id |-> id, gone |-> gone, after_load |-> after_load]

\* FarmListManager.__init__: the defaults, then load_farms
InitRaidFrom(files) ==
    /\ file \in files
    /\ LET m == load_farms(FreshManager, file)
       IN  /\ farms = m.farms
           /\ farm_counter = m.farm_counter
           /\ default_troops = m.default_troops
           /\ raid_interval = m.raid_interval
           /\ tribe = m.tribe
           /\ server_speed = m.server_speed
           /\ home_x = m.home_x
           /\ home_y = m.home_y
    /\ clock = StartClock
    /\ pc = "idle"
    /\ iter = <<>>
    /\ idx = 1
    /\ now = 0
    /\ stop = FALSE
    /\ stats = NoStats
    /\ results = NoResults
    /\ log = <<>>
    /\ passDue = <<>>
    /\ passEnabled = 0
    /\ passKind = "none"
    /\ lastOp = "init"
    /\ runs = 0
    /\ menuOps = 0
    /\ saved = <<>>
    /\ issued = [i \in 1..Len(load_farms(FreshManager, file).farms) |->
                   Issued(load_farms(FreshManager, file).farms[i].id, {}, FALSE)]

InitRaid == InitRaidFrom(InitFiles)

\* save_farms with the values the store has after the step
SaveFarms(fs, counter, dt) ==
    /\ file' = <<SaveData(fs, counter, dt, raid_interval, tribe, server_speed,
                          home_x, home_y)>>
    /\ saved' = <<Manager(fs, counter, dt, raid_interval, tribe, server_speed,
                          home_x, home_y)>>

paramVars == <<raid_interval, tribe, server_speed, home_x, home_y>>

\* The menu is open when nothing runs; the same store operations are also
\* let in at the head of auto_raid_loop's while loop, between two passes.
AtMenu == pc = "idle"
BetweenPasses == pc = "while"

\* A store operation from the menu: the stats of the loop that returned
\* before are gone; between two passes the running loop keeps its locals.
MenuStep ==
    /\ menuOps' = menuOps + 1
    /\ UNCHANGED runs
    /\ IF AtMenu
       THEN /\ log' = <<>>
            /\ passDue' = <<>>
            /\ passEnabled' = 0
            /\ passKind' = "none"
            /\ lastOp' = "menu"
            /\ stats' = NoStats
            /\ results' = NoResults
            /\ iter' = <<>>
            /\ idx' = 1
            /\ now' = 0
            /\ stop' = FALSE
            /\ UNCHANGED <<clock, pc>>
       ELSE UNCHANGED <<log, passDue, passEnabled, passKind, lastOp, loopVars>>
    /\ UNCHANGED nonRaidVars

\* ------------------------------------------------------------------------
\* Store operations
\* ------------------------------------------------------------------------
\* self.farm_counter += 1; id=self.farm_counter
NextId_mut(counter, fs) == Len(fs) + 1
NextId(counter, fs) == counter + 1

add_farm(name, x, y, troops, notes) ==
    /\ AtMenu \/ BetweenPasses
    /\ Len(farms) < MaxFarms
    /\ LET id == NextId(farm_counter, farms)
           \* troops or self.default_troops.copy(): None and {} are both falsy
           tr == IF troops = EmptyDict THEN default_troops ELSE troops
           fs == DictSet(farms, FarmTarget(id, name, x, y, tr, notes))
       IN  /\ farm_counter' = id
           /\ farms' = fs
           /\ SaveFarms(fs, id, default_troops)
           /\ issued' = Append(issued,
                  Issued(id, { issued[k].id : k \in 1..Len(issued) } \ FarmIds(farms),
                         lastOp = "load"))
    /\ MenuStep
    /\ UNCHANGED <<default_troops, paramVars>>

remove_farm(farm_id) ==
    /\ AtMenu \/ BetweenPasses
    /\ farm_id \in FarmIds(farms)
    /\ farms' = DictDel(farms, farm_id)
    /\ SaveFarms(farms', farm_counter, default_troops)
    /\ MenuStep
    /\ UNCHANGED <<farm_counter, default_troops, paramVars, issued>>

toggle_farm_mut(farm_id) ==
    /\ AtMenu \/ BetweenPasses
    /\ farm_id \in FarmIds(farms)
    /\ farms' = DictSet(farms, [FarmById(farms, farm_id) EXCEPT
                                  !.enabled = ~@, !.next_raid_at = 0])
    /\ SaveFarms(farms', farm_counter, default_troops)
    /\ MenuStep
    /\ UNCHANGED <<farm_counter, default_troops, paramVars, issued>>
toggle_farm(farm_id) ==
    /\ AtMenu \/ BetweenPasses
    /\ farm_id \in FarmIds(farms)
    /\ farms' = DictSet(farms, [FarmById(farms, farm_id) EXCEPT !.enabled = ~@])
    /\ SaveFarms(farms', farm_counter, default_troops)
    /\ MenuStep
    /\ UNCHANGED <<farm_counter, default_troops, paramVars, issued>>

update_farm_troops(farm_id, troops) ==
    /\ AtMenu
    /\ farm_id \in FarmIds(farms)
    /\ farms' = DictSet(farms, [FarmById(farms, farm_id) EXCEPT !.troops = troops])
    /\ SaveFarms(farms', farm_counter, default_troops)
    /\ MenuStep
    /\ UNCHANGED <<farm_counter, default_troops, paramVars, issued>>

set_default_troops(troops) ==
    /\ AtMenu
    /\ default_troops' = troops
    /\ SaveFarms(farms, farm_counter, troops)
    /\ MenuStep
    /\ UNCHANGED <<farms, farm_counter, paramVars, issued>>

\* A new process: FarmListManager.__init__, which ends in load_farms
Restart ==
    /\ AtMenu
    /\ LET m == load_farms(FreshManager, file)
       IN  /\ farms' = m.farms
           /\ farm_counter' = m.farm_counter
           /\ default_troops' = m.default_troops
           /\ raid_interval' = m.raid_interval
           /\ tribe' = m.tribe
           /\ server_speed' = m.server_speed
           /\ home_x' = m.home_x
           /\ home_y' = m.home_y
    /\ log' = <<>>
    /\ passDue' = <<>>
    /\ passEnabled' = 0
    /\ passKind' = "none"
    /\ lastOp' = "load"
    /\ stats' = NoStats
    /\ results' = NoResults
    /\ iter' = <<>>
    /\ idx' = 1
    /\ now' = 0
    /\ stop' = FALSE
    /\ UNCHANGED <<file, saved, clock, pc, runs, menuOps, issued>>
    /\ UNCHANGED nonRaidVars

\* ------------------------------------------------------------------------
\* One dispatch: send_raid(farm) called by one of the raid loops
\* ------------------------------------------------------------------------
Dispatch(farm_id, outcome, one_way, secs) ==
    LET farm == FarmById(farms, farm_id)
        est == estimate_travel_time(farm, tribe, server_speed, home_x, home_y)
        after == send_raid(farm, outcome, one_way, est, clock)
    IN  /\ clock + secs <= StartClock + Horizon
        /\ farms' = DictSet(farms, after)
        /\ IF SendRaidSaves(outcome)
           THEN SaveFarms(farms', farm_counter, default_troops)
           ELSE UNCHANGED <<file, saved>>
        /\ log' = Append(log, [id |-> farm_id, t |-> clock,
                               ok |-> SendRaidReturn(outcome),
                               reading |-> IF one_way > 0 THEN one_way ELSE 0,
                               enabled |-> farm.enabled,
                               stopped |-> stop,
                               one_way |-> one_way,
                               estimated |-> est,
                               cached |-> farm.travel_time,
                               scheduled |-> farm.next_raid_at,
                               travel_time |-> after.travel_time,
                               next_raid_at |-> after.next_raid_at])
        /\ clock' = clock + secs
        /\ UNCHANGED <<farm_counter, default_troops, paramVars>>

Readings(outcome) == IF outcome = "ok" THEN PageReadings ELSE {None}

Skip ==
    UNCHANGED <<storeVars, clock, log, saved>>

\* ------------------------------------------------------------------------
\* send_all_raids
\* ------------------------------------------------------------------------
\* what the one-shot wave is expected to dispatch to
SendAllDue(fs) ==
    Ids(SelectSeq(fs, LAMBDA f : f.enabled /\ f.troops # EmptyDict))

\* if not farm.troops: the wave skips the farm
SendAllSkips_mut(farm) == ~HasPositive(farm.troops)
SendAllSkips(farm) == farm.troops = EmptyDict

SendAllStart ==
    /\ AtMenu
    /\ runs < MaxRuns
    /\ runs' = runs + 1
    /\ UNCHANGED <<menuOps, issued>>
    /\ LET enabled_farms == get_enabled_farms(farms)
       IN  /\ results' = NoResults
              /\ log' = <<>>
           /\ passDue' = SendAllDue(farms)
           /\ passEnabled' = Len(SelectSeq(farms, LAMBDA f : f.enabled))
           /\ passKind' = "send_all"
           /\ IF enabled_farms = <<>>
              THEN /\ lastOp' = "send_all"
                   /\ iter' = <<>>
                   /\ idx' = 1
                   /\ UNCHANGED pc
              ELSE /\ pc' = "send_all"
                   /\ iter' = Ids(enabled_farms)
                   /\ idx' = 1
                   /\ lastOp' = "running"
    /\ stats' = NoStats
    /\ now' = 0
    /\ stop' = FALSE
    /\ UNCHANGED <<storeVars, saved, clock>>
    /\ UNCHANGED nonRaidVars

SendAllStep ==
    /\ pc = "send_all"
    /\ idx <= Len(iter)
    /\ LET farm == FarmById(farms, iter[idx])
       IN  IF SendAllSkips(farm)
           THEN /\ results' = [results EXCEPT !.skipped = @ + 1]
                /\ Skip
           ELSE \E outcome \in Outcomes(farm), secs \in DispatchSecs :
                \E one_way \in Readings(outcome) :
                    /\ Dispatch(farm.id, outcome, one_way, secs)
                    /\ results' = IF SendRaidReturn(outcome)
                                  THEN [results EXCEPT !.sent = @ + 1]
                                  ELSE [results EXCEPT !.failed = @ + 1]
    /\ idx' = idx + 1
    /\ UNCHANGED <<pc, iter, now, stop, stats, passDue, passEnabled,
                   passKind, lastOp, runs, menuOps, issued>>
    /\ UNCHANGED nonRaidVars

SendAllDone ==
    /\ pc = "send_all"
    /\ idx > Len(iter)
    /\ pc' = "idle"
    /\ lastOp' = "send_all"
    /\ UNCHANGED <<storeVars, saved, clock, iter, idx, now, stop, stats,
                   results, log, passDue, passEnabled, passKind, runs, menuOps, issued>>
    /\ UNCHANGED nonRaidVars

\* ------------------------------------------------------------------------
\* auto_raid_loop
\* ------------------------------------------------------------------------
\* what a scheduling pass at time t is expected to dispatch to
PassDue(fs, t) ==
    Ids(SelectSeq(fs, LAMBDA f : f.enabled /\ f.troops # EmptyDict
                                  /\ f.next_raid_at <= t))

\* auto_raid_travel_time asks for tribe, speed and home, then runs the loop
AutoRaidStart(p) ==
    /\ AtMenu
    /\ runs < MaxRuns
    /\ runs' = runs + 1
    /\ UNCHANGED <<menuOps, issued>>
    /\ get_enabled_farms(farms) # <<>>
    /\ tribe' = p[1]
    /\ server_speed' = p[2]
    /\ home_x' = p[3]
    /\ home_y' = p[4]
    /\ stats' = NoStats
    /\ stop' = FALSE
    /\ now' = clock
    /\ iter' = Ids(get_enabled_farms(farms))
    /\ idx' = 1
    /\ pc' = "sweep"
    /\ log' = <<>>
    /\ passDue' = PassDue(farms, clock)
    /\ passEnabled' = Len(SelectSeq(farms, LAMBDA f : f.enabled))
    /\ passKind' = "sweep"
    /\ lastOp' = "running"
    /\ results' = NoResults
    /\ UNCHANGED <<farms, farm_counter, default_troops, raid_interval, file,
                   saved, clock>>
    /\ UNCHANGED nonRaidVars

Counted(outcome) ==
    IF SendRaidReturn(outcome)
    THEN [stats EXCEPT !.total_sent = @ + 1]
    ELSE [stats EXCEPT !.total_failed = @ + 1]

\* one iteration of the initial wave
SweepStep ==
    /\ pc = "sweep"
    /\ idx <= Len(iter)
    /\ LET farm == FarmById(farms, iter[idx])
       IN  IF farm.troops # EmptyDict /\ farm.next_raid_at <= now
           THEN \E outcome \in Outcomes(farm), secs \in DispatchSecs :
                \E one_way \in Readings(outcome) :
                    /\ Dispatch(farm.id, outcome, one_way, secs)
                    /\ stats' = Counted(outcome)
           ELSE /\ Skip
                /\ UNCHANGED stats
    /\ idx' = idx + 1
    /\ UNCHANGED <<pc, iter, now, stop, results, passDue, passEnabled,
                   passKind, lastOp, runs, menuOps, issued>>
    /\ UNCHANGED nonRaidVars

SweepDone ==
    /\ pc = "sweep"
    /\ idx > Len(iter)
    /\ pc' = "while"
    /\ iter' = <<>>
    /\ idx' = 1
    /\ UNCHANGED <<storeVars, histVars, clock, now, stop, stats, results>>
    /\ UNCHANGED nonRaidVars

\* StopFlag.should_stop, the stop_callback of both loops
should_stop_mut(stop_event) == FALSE
should_stop(stop_event) == stop_event

\* while not stop_callback(): either return stats or begin a pass
WhileCheck ==
    /\ pc = "while"
    /\ IF should_stop(stop)
       THEN /\ pc' = "idle"
            /\ lastOp' = "auto_raid"
            /\ now' = 0
            /\ log' = <<>>
            /\ passDue' = <<>>
            /\ passEnabled' = 0
            /\ passKind' = "none"
            /\ UNCHANGED <<iter, idx>>
       ELSE /\ pc' = "pass"
            /\ now' = clock
            /\ iter' = Ids(get_enabled_farms(farms))
            /\ idx' = 1
            /\ log' = <<>>
            /\ passDue' = PassDue(farms, clock)
            /\ passEnabled' = Len(SelectSeq(farms, LAMBDA f : f.enabled))
            /\ passKind' = "poll"
            /\ UNCHANGED lastOp
    /\ UNCHANGED <<storeVars, saved, clock, stop, stats, results, runs,
                   menuOps, issued>>
    /\ UNCHANGED nonRaidVars

\* one iteration of the for loop of a later pass
PassStep ==
    /\ pc = "pass"
    /\ idx <= Len(iter)
    /\ LET farm == FarmById(farms, iter[idx])
       IN  IF /\ ~(farm.troops = EmptyDict \/ ~farm.enabled)
              /\ farm.next_raid_at > 0
              /\ now >= farm.next_raid_at
           THEN \E outcome \in Outcomes(farm), secs \in DispatchSecs :
                \E one_way \in Readings(outcome) :
                    /\ Dispatch(farm.id, outcome, one_way, secs)
                    /\ stats' = Counted(outcome)
           ELSE /\ Skip
                /\ UNCHANGED stats
    /\ idx' = idx + 1
    /\ UNCHANGED <<pc, iter, now, stop, results, passDue, passEnabled,
                   passKind, lastOp, runs, menuOps, issued>>
    /\ UNCHANGED nonRaidVars

\* the pass is over: the status lines are printed and the sleep begins
PassDone ==
    /\ pc = "pass"
    /\ idx > Len(iter)
    /\ pc' = "sleep"
    /\ iter' = <<>>
    /\ idx' = 1
    /\ UNCHANGED <<storeVars, histVars, clock, now, stop, stats, results>>
    /\ UNCHANGED nonRaidVars

\* for _ in range(7): if stop_callback(): break; time.sleep(1)
\* The whole for loop is one step: it sleeps all 7 seconds, or the key
\* listener sets the flag after k < 7 of them and the loop breaks.
SleepStep ==
    /\ pc = "sleep"
    /\ IF should_stop(stop)
       THEN UNCHANGED <<clock, stop>>
       ELSE \E k \in 0..POLL_SLEEPS :
                /\ clock + k <= StartClock + Horizon
                /\ clock' = clock + k
                /\ stop' = (k < POLL_SLEEPS)
    /\ pc' = "while"
    /\ UNCHANGED <<storeVars, histVars, iter, idx, now, stats, results>>
    /\ UNCHANGED nonRaidVars

\* key_listener: Q or S sets the stop flag at any moment of the loop: during
\* the sweep, during a pass or between two passes.  A key pressed after the
\* last farm of a sweep or pass is one pressed between two passes; a key
\* pressed during the sleep is in SleepStep.
KeyStop ==
    /\ \/ pc \in {"sweep", "pass"} /\ idx <= Len(iter)
       \/ pc = "while"
    /\ ~stop
    /\ stop' = TRUE
    /\ UNCHANGED <<storeVars, histVars, clock, pc, iter, idx, now,
                   stats, results>>
    /\ UNCHANGED nonRaidVars

\* auto_raid_travel_time when the operator answers the prompts and then
\* declines to start: tribe, speed and home are set and not saved
AutoRaidConfigure(p) ==
    /\ AtMenu
    /\ get_enabled_farms(farms) # <<>>
    /\ tribe' = p[1]
    /\ server_speed' = p[2]
    /\ home_x' = p[3]
    /\ home_y' = p[4]
    /\ log' = <<>>
    /\ passDue' = <<>>
    /\ passEnabled' = 0
    /\ passKind' = "none"
    /\ lastOp' = "menu"
    /\ stats' = NoStats
    /\ results' = NoResults
    /\ iter' = <<>>
    /\ idx' = 1
    /\ now' = 0
    /\ stop' = FALSE
    /\ UNCHANGED <<farms, farm_counter, default_troops, raid_interval, file,
                   saved, clock, pc, runs, menuOps, issued>>
    /\ UNCHANGED nonRaidVars

\* ------------------------------------------------------------------------
\* Specification of the raid loops
\* ------------------------------------------------------------------------
NextRaid ==
    \/ \E n \in FarmNames, f \in NewFarms, nt \in FarmNotes :
           menuOps < MaxMenuOps /\ add_farm(n, f[1], f[2], f[3], nt)
    \/ \E id \in FarmIds(farms) : menuOps < MaxMenuOps /\ remove_farm(id)
    \/ \E id \in FarmIds(farms) : menuOps < MaxMenuOps /\ toggle_farm(id)
    \/ \E id \in FarmIds(farms), tr \in TroopMaps :
           menuOps < MaxMenuOps /\ update_farm_troops(id, tr)
    \/ \E tr \in TroopMaps : menuOps < MaxMenuOps /\ set_default_troops(tr)
    \/ SendAllStart
    \/ SendAllStep
    \/ SendAllDone
    \/ \E p \in StartParams : AutoRaidStart(p)
    \/ SweepStep
    \/ SweepDone
    \/ WhileCheck
    \/ PassStep
    \/ PassDone
    \/ SleepStep
    \/ KeyStop


\* ------------------------------------------------------------------------
\* Specification of the store and its persistence
\* ------------------------------------------------------------------------
NextStore ==
    \/ \E n \in FarmNames, f \in NewFarms, nt \in FarmNotes :
           AtMenu /\ menuOps < MaxStoreOps /\ add_farm(n, f[1], f[2], f[3], nt)
    \/ \E id \in FarmIds(farms) : menuOps < MaxStoreOps /\ remove_farm(id)
    \/ \E id \in FarmIds(farms) : menuOps < MaxStoreOps /\ toggle_farm(id)
    \/ \E id \in FarmIds(farms), tr \in TroopMaps :
           menuOps < MaxStoreOps /\ update_farm_troops(id, tr)
    \/ \E tr \in TroopMaps : menuOps < MaxStoreOps /\ set_default_troops(tr)
    \/ \E p \in ParamChoices : AutoRaidConfigure(p)
    \/ Restart


\* ========================================================================
\* The tile scanner (modules/farm_finder.py)
\* ========================================================================
\* Text that is searched or lower-cased is a sequence of characters.
UPPER == <<"B", "F", "L", "N", "O", "W">>
LOWER == <<"b", "f", "l", "n", "o", "w">>

\* str.lower()
lower(s) ==
    [i \in 1..Len(s) |->
        IF \E k \in 1..Len(UPPER) : UPPER[k] = s[i]
        THEN LOWER[CHOOSE k \in 1..Len(UPPER) : UPPER[k] = s[i]]
        ELSE s[i]]

\* needle in hay
Contains(needle, hay) ==
    \E i \in 0..(Len(hay) - Len(needle)) :
        SubSeq(hay, i + 1, i + Len(needle)) = needle

NATAR == <<"n", "a", "t", "a", "r">>
Natars == <<"N", "a", "t", "a", "r", "s">>
Bob == <<"b", "o", "b">>
Wolf == <<"W", "O", "L", "F">>
NoText == <<>>

\* dataclass ScannedTile as _parse_tile returns it; distance, is_capital and
\* tribe are left out: scan_area and _matches_filter never read them
ScannedTile(x, y, tile_type, name, player_name, alliance, population) ==
    [x |-> x, y |-> y, tile_type |-> tile_type, name |-> name,
     player_name |-> player_name, alliance |-> alliance,
     population |-> population]

\* what the eight tiles around the centre can be
TileKinds ==
    << ScannedTile(0, 0, "village", "Village", Bob, NoText, 80),
       ScannedTile(0, 0, "village", "Village", Natars, NoText, 0),
       ScannedTile(0, 0, "oasis_unoccupied", "Oasis", NoText, NoText, 0),
       ScannedTile(0, 0, "oasis_occupied", "Oasis", Bob, Wolf, 0),
       ScannedTile(0, 0, "wilderness", "", NoText, NoText, 0),
       ScannedTile(0, 0, "empty", "", NoText, NoText, 0),
       ScannedTile(0, 0, "village", "Village", Bob, Wolf, 50),
       ScannedTile(0, 0, "village", "Village", Natars, NoText, 80) >>

\* dataclass ScanFilter
ScanFilter(radius, max_population, include_natars, include_player_villages, include_unoccupied_oases, include_occupied_oases, exclude_alliances, exclude_players) ==
    [radius |-> radius, max_population |-> max_population,
     include_natars |-> include_natars,
     include_player_villages |-> include_player_villages,
     include_unoccupied_oases |-> include_unoccupied_oases,
     include_occupied_oases |-> include_occupied_oases,
     exclude_alliances |-> exclude_alliances,
     exclude_players |-> exclude_players]

\* the answers scan_for_farms can build a filter from
Radii == { 1 }
MaxPopulations == { 50 }
\* the include flags all set, each one cleared alone, all cleared; and a
\* filter that excludes an alliance and a player
IncludeFlags ==
    { <<TRUE, TRUE, TRUE, TRUE>>, <<FALSE, TRUE, TRUE, TRUE>>,
      <<TRUE, FALSE, TRUE, TRUE>>, <<TRUE, TRUE, FALSE, TRUE>>,
      <<TRUE, TRUE, TRUE, FALSE>>, <<FALSE, FALSE, FALSE, FALSE>> }
ScanFilters ==
    { ScanFilter(r, mp, fl[1], fl[2], fl[3], fl[4], <<>>, <<>>) :
        r \in Radii, mp \in MaxPopulations, fl \in IncludeFlags }
    \cup
    { ScanFilter(r, mp, TRUE, TRUE, TRUE, TRUE,
                 << <<"w", "o", "l">> >>, << <<"B", "o", "b">> >>) :
        r \in Radii, mp \in MaxPopulations }
ScanCenters == { <<0, 0>> }
\* the tiles whose page load can raise: one that matches the filters and one
\* that is wilderness
FlakyCoords == { <<0, 1>>, <<1, -1>> }
\* how many tiles the loop has visited when the operator presses Q or S
KeyAfterTiles == { 0, 3 }
WorldShifts == { 0 }

\* ------------------------------------------------------------------------
\* _matches_filter
\* ------------------------------------------------------------------------
TypeIncluded(tile, scan_filter) ==
    /\ ~(tile.tile_type = "oasis_unoccupied" /\ ~scan_filter.include_unoccupied_oases)
    /\ ~(tile.tile_type = "oasis_occupied" /\ ~scan_filter.include_occupied_oases)
    /\ ~(tile.tile_type = "village" /\ ~scan_filter.include_player_villages)

NatarsAllowed(tile, scan_filter) ==
    ~(Contains(NATAR, lower(tile.player_name)) /\ ~scan_filter.include_natars)

PopulationAllowed_mut(tile, scan_filter) == TRUE
PopulationAllowed(tile, scan_filter) ==
    ~(tile.population > 0 /\ tile.population > scan_filter.max_population)

\* no name of `excluded` occurs, lower-cased, in the lower-cased text; an
\* empty text or an empty exclusion list skips the loop
NotExcluded(text, excluded) ==
    (text # NoText /\ excluded # <<>>)
        => \A k \in 1..Len(excluded) : ~Contains(lower(excluded[k]), lower(text))

_matches_filter(tile, scan_filter) ==
    /\ TypeIncluded(tile, scan_filter)
    /\ NatarsAllowed(tile, scan_filter)
    /\ PopulationAllowed(tile, scan_filter)
    /\ NotExcluded(tile.alliance, scan_filter.exclude_alliances)
    /\ NotExcluded(tile.player_name, scan_filter.exclude_players)

\* ------------------------------------------------------------------------
\* _generate_spiral_coords
\* ------------------------------------------------------------------------
Ring_mut(cx, cy, r) ==
    LET top == [k \in 1..(2 * r + 1) |-> <<cx - r + (k - 1), cy + r>>]
        right == [k \in 1..(2 * r) |-> <<cx + r, cy + r - k>>]
        bottom == [k \in 1..(2 * r) |-> <<cx + r - k, cy - r>>]
    IN  top \o right \o bottom
Ring(cx, cy, r) ==
    LET top == [k \in 1..(2 * r + 1) |-> <<cx - r + (k - 1), cy + r>>]
        right == [k \in 1..(2 * r) |-> <<cx + r, cy + r - k>>]
        bottom == [k \in 1..(2 * r) |-> <<cx + r - k, cy - r>>]
        left == [k \in 1..(2 * r - 1) |-> <<cx - r, cy - r + k>>]
    IN  top \o right \o bottom \o left

RECURSIVE Rings(_, _, _, _)
Rings(cx, cy, r, radius) ==
    IF r > radius THEN <<>> ELSE Ring(cx, cy, r) \o Rings(cx, cy, r + 1, radius)

\* remove duplicates while preserving order
RECURSIVE Unique(_, _)
Unique(cs, seen) ==
    IF cs = <<>> THEN <<>>
    ELSE IF Head(cs) \in seen THEN Unique(Tail(cs), seen)
    ELSE <<Head(cs)>> \o Unique(Tail(cs), seen \cup {Head(cs)})

_generate_spiral_coords_mut(center_x, center_y, radius) ==
    LET rings == Rings(center_x, center_y, 1, radius)
    IN  Unique([k \in 1..Len(rings) |-> rings[Len(rings) + 1 - k]], {})
_generate_spiral_coords(center_x, center_y, radius) ==
    Unique(Rings(center_x, center_y, 1, radius), {})

\* estimate_scan_time: 8 * r tiles for each ring, about half a second a tile
RECURSIVE TileCount(_)
TileCount(radius) == IF radius < 1 THEN 0 ELSE TileCount(radius - 1) + 8 * radius

estimate_scan_time(radius) ==
    [tile_count |-> TileCount(radius),
     estimated_seconds |-> TileCount(radius) \div 2]

\* f"{x},{y}"
coord_key(x, y) == <<x, ",", y>>

\* the map: the k-th tile of the first ring shows the (k + shift)-th kind
WorldAt(shift) ==
    LET ring == _generate_spiral_coords(0, 0, 1)
    IN  [c \in Range(ring) |->
            LET k == CHOOSE j \in 1..Len(ring) : ring[j] = c
                kind == TileKinds[((k - 1 + shift) % Len(TileKinds)) + 1]
            IN  [kind EXCEPT !.x = c[1], !.y = c[2]]]

\* ------------------------------------------------------------------------
\* The multi-list store the scanner calls
\* ------------------------------------------------------------------------
\* a named farm list: its farms, its id counter and its default troops
FarmList(name, fs, counter, troops) ==
    [name |-> name, farms |-> fs, farm_counter |-> counter,
     default_troops |-> troops]

get_farm_list_names(fl) == [i \in 1..Len(fl) |-> fl[i].name]

HasCoordinate(fs, x, y) == \E i \in 1..Len(fs) : fs[i].x = x /\ fs[i].y = y

\* the name of the first list holding a farm at (x, y) as <<name>>, or <<>>
\* for None
is_coordinate_in_any_list(fl, x, y) ==
    LET hits == SelectSeq(fl, LAMBDA l : HasCoordinate(l.farms, x, y))
    IN  IF hits = <<>> THEN <<>> ELSE <<hits[1].name>>

\* add_farm_to_list: the lists after the call and the id it returns, the
\* next id of the named list's counter, or 0 when no list has that name
add_farm_to_list(fl, list_name, name, x, y, notes) ==
    IF list_name \notin Range(get_farm_list_names(fl))
    THEN [lists |-> fl, id |-> 0]
    ELSE LET k == CHOOSE i \in 1..Len(fl) : fl[i].name = list_name
             id == fl[k].farm_counter + 1
             farm == FarmTarget(id, name, x, y, fl[k].default_troops, notes)
         IN  [lists |-> [fl EXCEPT ![k].farm_counter = id,
                                   ![k].farms = DictSet(@, farm)],
              id |-> id]

\* what save_farms writes of the multi-list store
SaveLists(fl, active, history) ==
    [farm_lists |-> fl, active_list |-> active,
     scan_history |-> [scanned_coords |-> history]]

\* how many farms of all lists lie at (x, y)
FarmsAt(fl, x, y) ==
    SeqSum([i \in 1..Len(fl) |->
              Cardinality({ j \in 1..Len(fl[i].farms) :
                              fl[i].farms[j].x = x /\ fl[i].farms[j].y = y })])

\* ------------------------------------------------------------------------
\* Initial state of the scanner
\* ------------------------------------------------------------------------
NoScanStats ==
    [scanned |-> 0, found |-> 0, added |-> 0, skipped_duplicate |-> 0,
     skipped_filter |-> 0, errors |-> 0]

\* the operator's answers before the first scan: the filter answers are
\* chosen once and given again at every scan of the session
ScanArgs(center_x, center_y, scan_filter, target_list) ==
    [center_x |-> center_x, center_y |-> center_y,
     scan_filter |-> scan_filter, target_list |-> target_list]

NoScan == [center_x |-> 0, center_y |-> 0, radius |-> 0, completed |-> FALSE]

\* no list management call yet
NoListOp == [op |-> "none"]

\* two empty lists, the first of them active; nothing scanned yet
InitScan(shifts, filters) ==
    /\ farm_lists = << FarmList("default", <<>>, 0, EmptyDict),
                       FarmList("raids", <<>>, 0, EmptyDict) >>
    /\ active_list_name = "default"
    /\ scan_history = <<>>
    /\ lists_file = <<>>
    /\ world \in { WorldAt(s) : s \in shifts }
    /\ scan_pc = "menu"
    /\ scan_args \in { ScanArgs(0, 0, f, "") : f \in filters }
    /\ coords = <<>>
    /\ scan_i = 1
    /\ scan_stats = NoScanStats
    /\ scan_stop = FALSE
    /\ scan_log = <<>>
    /\ prev_scan = NoScan
    /\ rerun = FALSE
    /\ parse_errors = 0
    /\ scans = 0
    /\ listOps = 0
    /\ list_op = NoListOp

\* no estimate asked for yet
InitEst == estimate = <<>>

\* TaskExecutor.__init__ and TaskQueue.__init__; the menu is idle
InitCrash == file_before = <<>>

InitTasks ==
    /\ tasks = <<>>
    /\ task_counter = 0
    /\ running = FALSE
    /\ stop_flag = FALSE
    /\ threads = <<>>
    /\ fg = "menu"
    /\ taskOps = 0

Init ==
    /\ InitRaid
    /\ InitScan({0}, {ScanFilter(1, 50, TRUE, TRUE, TRUE, TRUE, <<>>, <<>>)})
    /\ InitEst
    /\ InitTasks
    /\ InitCrash

InitScanner ==
    /\ InitRaid
    /\ file = <<>>
    /\ InitScan(WorldShifts, ScanFilters)
    /\ InitEst
    /\ InitTasks
    /\ InitCrash

\* ------------------------------------------------------------------------
\* List operations from the menu
\* ------------------------------------------------------------------------
ScanMenu == scan_pc = "menu"

\* a list operation ends the "immediately after" of the last scan; op is
\* what is remembered of the call
ListOp(op) ==
    /\ ScanMenu
    /\ listOps' = listOps + 1
    /\ list_op' = op
    /\ prev_scan' = NoScan
    /\ rerun' = FALSE
    /\ scan_log' = <<>>
    /\ scan_stats' = NoScanStats
    /\ coords' = <<>>
    /\ UNCHANGED <<world, scan_pc, scan_args, scan_i, scan_stop, parse_errors,
                   scans>>
    /\ UNCHANGED nonScanVars

ListStep == ListOp(NoListOp)

\* add_farm_manual: a farm typed in by the operator goes to the active list
AddFarmToActive(name, x, y) ==
    /\ farm_lists' = add_farm_to_list(farm_lists, active_list_name, name,
                                      x, y, "").lists
    /\ lists_file' = <<SaveLists(farm_lists', active_list_name, scan_history)>>
    /\ ListStep
    /\ UNCHANGED <<active_list_name, scan_history>>

clear_scan_history ==
    /\ scan_history' = <<>>
    /\ lists_file' = <<SaveLists(farm_lists, active_list_name, scan_history')>>
    /\ ListStep
    /\ UNCHANGED <<farm_lists, active_list_name>>

\* ------------------------------------------------------------------------
\* scan_area
\* ------------------------------------------------------------------------
\* scan_for_farms: the operator's answers, then scan_area up to its for loop
ScanStart(center, target_list) ==
    /\ ScanMenu
    /\ scans < MaxScans
    /\ scans' = scans + 1
    /\ target_list \in Range(get_farm_list_names(farm_lists))
    /\ scan_args' = ScanArgs(center[1], center[2], scan_args.scan_filter,
                            target_list)
    /\ scan_stats' = NoScanStats
    /\ coords' = _generate_spiral_coords(center[1], center[2],
                                         scan_args.scan_filter.radius)
    /\ scan_i' = 1
    /\ scan_stop' = FALSE
    /\ scan_pc' = "loop"
    /\ scan_log' = <<>>
    /\ rerun' = /\ prev_scan.completed
                /\ prev_scan.center_x = center[1]
                /\ prev_scan.center_y = center[2]
                /\ prev_scan.radius = scan_args.scan_filter.radius
    /\ UNCHANGED <<listVars, world, prev_scan, parse_errors, listOps, list_op>>
    /\ UNCHANGED nonScanVars

\* if existing_list: the coordinate is skipped
InAnyListSkips_mut(existing_list) == FALSE
InAnyListSkips(existing_list) == existing_list # <<>>

\* stats[key] += 1
Bump_mut(st, key) ==
    IF key = "skipped_duplicate" THEN st ELSE [st EXCEPT ![key] = @ + 1]
Bump(st, key) == [st EXCEPT ![key] = @ + 1]

\* if tile is None: stats['errors'] += 1
CountError_mut(st) == st
CountError(st) == Bump(st, "errors")

\* One iteration of the for loop after the stop check, where _parse_tile
\* would return `result`: <<>> for None, <<tile>> otherwise.  Gives the
\* lists, the history and the st after it and whether _parse_tile ran.
ScanTile(fl, history, st, args, x, y, result) ==
    IF InAnyListSkips(is_coordinate_in_any_list(fl, x, y))
    THEN [lists |-> fl, history |-> history, classified |-> FALSE,
          stats |-> Bump(st, "skipped_duplicate")]
    ELSE IF coord_key(x, y) \in Range(history)
    THEN [lists |-> fl, history |-> history, classified |-> FALSE,
          stats |-> Bump(st, "skipped_duplicate")]
    ELSE LET s1 == Bump(st, "scanned")
         IN  IF result = <<>>
             THEN [lists |-> fl, history |-> history, classified |-> TRUE,
                   stats |-> CountError(s1)]
             ELSE LET tile == result[1]
                      h1 == Append(history, coord_key(x, y))
                  IN  IF tile.tile_type \in {"empty", "wilderness"}
                      THEN [lists |-> fl, history |-> h1, classified |-> TRUE,
                            stats |-> s1]
                      ELSE IF ~_matches_filter(tile, args.scan_filter)
                      THEN [lists |-> fl, history |-> h1, classified |-> TRUE,
                            stats |-> Bump(s1, "skipped_filter")]
                      ELSE LET r == add_farm_to_list(fl, args.target_list,
                                        IF tile.name # "" THEN tile.name
                                        ELSE <<"(", x, "|", y, ")">>,
                                        x, y,
                                        <<"pop:", tile.population,
                                          " type:", tile.tile_type,
                                          " player:", tile.player_name>>)
                               s2 == Bump(s1, "found")
                           IN  [lists |-> r.lists, history |-> h1,
                                classified |-> TRUE,
                                stats |-> IF r.id > 0 THEN Bump(s2, "added")
                                          ELSE s2]

\* what _parse_tile can return for (x, y): the tile the map shows there, or
\* None when the page load raises (on the tiles of FlakyCoords)
ParseResults(x, y) ==
    { <<world[<<x, y>>]>> } \cup
    (IF parse_errors < MaxParseErrors /\ <<x, y>> \in FlakyCoords
     THEN { <<>> } ELSE {})

ScanStep ==
    /\ scan_pc = "loop"
    /\ ~should_stop(scan_stop)
    /\ scan_i <= Len(coords)
    /\ LET x == coords[scan_i][1]
           y == coords[scan_i][2]
       IN  \E result \in ParseResults(x, y) :
             LET out == ScanTile(farm_lists, scan_history, scan_stats,
                                 scan_args, x, y, result)
             IN  /\ out.classified \/ result # <<>>
                 /\ farm_lists' = out.lists
                 /\ scan_history' = out.history
                 /\ scan_stats' = out.stats
                 /\ parse_errors' = IF out.classified /\ result = <<>>
                                    THEN parse_errors + 1 ELSE parse_errors
                 /\ scan_log' = Append(scan_log,
                        [x |-> x, y |-> y,
                         existing |-> is_coordinate_in_any_list(farm_lists, x, y),
                         classified |-> out.classified,
                         stopped |-> scan_stop,
                         result |-> IF out.classified THEN result ELSE <<>>,
                         before |-> scan_stats,
                         after |-> out.stats,
                         at_before |-> FarmsAt(farm_lists, x, y),
                         at_after |-> FarmsAt(out.lists, x, y),
                         in_target |-> HasCoordinate(
                             SelectSeq(out.lists, LAMBDA l :
                                 l.name = scan_args.target_list)[1].farms, x, y)])
    /\ scan_i' = scan_i + 1
    /\ UNCHANGED <<active_list_name, lists_file, world, scan_pc, scan_args,
                   coords, scan_stop, prev_scan, rerun, scans, listOps, list_op>>
    /\ UNCHANGED nonScanVars

\* save_farms and return stats at the end of scan_area, then stop_flag.stop()
\* in scan_for_farms
Return(completed) ==
    /\ lists_file' = <<SaveLists(farm_lists, active_list_name, scan_history)>>
    /\ prev_scan' = [center_x |-> scan_args.center_x,
                     center_y |-> scan_args.center_y,
                     radius |-> scan_args.scan_filter.radius,
                     completed |-> completed]
    /\ scan_pc' = "menu"
    /\ scan_stop' = TRUE
    /\ UNCHANGED <<farm_lists, active_list_name, scan_history, world,
                   scan_args, coords, scan_i, scan_stats, scan_log, rerun,
                   parse_errors, scans, listOps, list_op>>
    /\ UNCHANGED nonScanVars

\* the for loop has visited every coordinate
ScanReturn ==
    /\ scan_pc = "loop"
    /\ scan_i > Len(coords)
    /\ Return(TRUE)

\* key_listener sets the stop flag on Q or S while tiles are left
ScanKey ==
    /\ scan_pc = "loop"
    /\ scan_i <= Len(coords)
    /\ scan_i - 1 \in KeyAfterTiles
    /\ ~scan_stop
    /\ scan_stop' = TRUE
    /\ UNCHANGED <<listVars, world, scan_pc, scan_args, coords, scan_i,
                   scan_stats, scan_log, prev_scan, rerun, parse_errors,
                   scans, listOps, list_op>>
    /\ UNCHANGED nonScanVars

\* if stop_callback and stop_callback(): break, at the head of an iteration
ScanInterrupt ==
    /\ scan_pc = "loop"
    /\ scan_i <= Len(coords)
    /\ should_stop(scan_stop)
    /\ Return(FALSE)

\* ------------------------------------------------------------------------
\* Specification of the scanner
\* ------------------------------------------------------------------------
NextScan ==
    \/ \E n \in FarmNames, c \in { <<1, 1>> } :
           listOps < MaxListOps /\ AddFarmToActive(n, c[1], c[2])
    \/ listOps < MaxListOps /\ clear_scan_history
    \/ \E c \in ScanCenters, t \in Range(get_farm_list_names(farm_lists)) :
         ScanStart(c, t)
    \/ ScanStep
    \/ ScanReturn
    \/ ScanKey
    \/ ScanInterrupt

\* ------------------------------------------------------------------------
\* _generate_spiral_coords called on its own
\* ------------------------------------------------------------------------
SpiralCenters == (-MaxCenter..MaxCenter) \X (-MaxCenter..MaxCenter)
SpiralRadii == 1..MaxSpiralRadius

\* coords = self._generate_spiral_coords(center_x, center_y, radius), as the
\* first statement of scan_area computes it
ApplySpiral(center, radius) ==
    /\ ScanMenu
    /\ scan_args' = ScanArgs(center[1], center[2],
                             [scan_args.scan_filter EXCEPT !.radius = radius],
                             scan_args.target_list)
    /\ coords' = _generate_spiral_coords(center[1], center[2], radius)
    /\ UNCHANGED <<listVars, world, scan_pc, scan_i, scan_stats, scan_stop,
                   scan_log, prev_scan, rerun, parse_errors, scans, listOps,
                   list_op>>
    /\ UNCHANGED nonScanVars

InitSpiral == Init

NextSpiral == \E c \in SpiralCenters, r \in SpiralRadii : ApplySpiral(c, r)

\* ------------------------------------------------------------------------
\* The two loops the operator stops with a key
\* ------------------------------------------------------------------------
\* the statements of auto_raid_loop
RaidLoopStep ==
    \/ SweepStep
    \/ SweepDone
    \/ WhileCheck
    \/ PassStep
    \/ PassDone
    \/ SleepStep

\* the statements of scan_area
ScanLoopStep ==
    \/ ScanStep
    \/ ScanReturn
    \/ ScanInterrupt

\* a farm list from an earlier session, nothing scanned yet
InitStop ==
    /\ InitRaidFrom({ <<PriorSession>> })
    /\ InitScan({0}, {ScanFilter(1, 50, TRUE, TRUE, TRUE, TRUE, <<>>, <<>>)})
    /\ InitEst
    /\ InitTasks
    /\ InitCrash

\* the menu starts one loop at a time
NextStop ==
    \/ \E p \in StartParams :
           ScanMenu /\ runs + scans < MaxLoops /\ AutoRaidStart(p)
    \/ \E c \in ScanCenters, t \in Range(get_farm_list_names(farm_lists)) :
           AtMenu /\ runs + scans < MaxLoops /\ ScanStart(c, t)
    \/ KeyStop
    \/ ScanKey
    \/ RaidLoopStep
    \/ ScanLoopStep

\* ------------------------------------------------------------------------
\* A process that dies inside save_farms, and files that do not load
\* ------------------------------------------------------------------------
\* farm_list.json after an edit by hand: the second entry lacks its troops
PartialSession ==
    [PriorSession EXCEPT !.farms =
        << asdict(PriorFarms[1]),
           [id |-> 2, name |-> "Oasis", x |-> 0, y |-> 0] >>]

PersistFiles == { <<>>, <<PriorSession>>, <<PartialSession>> }

\* open(FARM_FILE, 'w') empties the file, json.dump writes the pieces and
\* the end of the with block closes it: the file a process leaves that dies
\* before the open, between two pieces, or after the close
FileAfterCrash(f, data) ==
    { f } \cup { <<data, cut>> : cut \in 0..(DumpLen(data) - 1) } \cup { <<data>> }

\* save_farms of a process that dies inside it
DieInSave(fs, counter, dt) ==
    /\ file' \in FileAfterCrash(file, SaveData(fs, counter, dt, raid_interval,
                                               tribe, server_speed, home_x, home_y))
    /\ saved' = <<Manager(fs, counter, dt, raid_interval, tribe, server_speed,
                          home_x, home_y)>>
    /\ file_before' = file
    /\ pc' = "crashed"
    /\ lastOp' = "crash"
    /\ menuOps' = menuOps + 1
    /\ UNCHANGED <<clock, iter, idx, now, stop, stats, results, log, passDue,
                   passEnabled, passKind, runs>>
    /\ UNCHANGED <<scanVars, estVars, taskVars>>

\* add_farm up to its save_farms
AddFarmDies(name, x, y, troops, notes) ==
    /\ AtMenu
    /\ Len(farms) < MaxFarms
    /\ LET id == NextId(farm_counter, farms)
           tr == IF troops = EmptyDict THEN default_troops ELSE troops
           fs == DictSet(farms, FarmTarget(id, name, x, y, tr, notes))
       IN  /\ farm_counter' = id
           /\ farms' = fs
           /\ DieInSave(fs, id, default_troops)
           /\ issued' = Append(issued,
                  Issued(id, { issued[k].id : k \in 1..Len(issued) } \ FarmIds(farms),
                         lastOp = "load"))
    /\ UNCHANGED <<default_troops, paramVars>>

\* remove_farm up to its save_farms
RemoveFarmDies(farm_id) ==
    /\ AtMenu
    /\ farm_id \in FarmIds(farms)
    /\ farms' = DictDel(farms, farm_id)
    /\ DieInSave(farms', farm_counter, default_troops)
    /\ UNCHANGED <<farm_counter, default_troops, paramVars, issued>>

\* the next process: FarmListManager.__init__, which ends in load_farms
Reboot ==
    /\ pc = "crashed"
    /\ LET m == load_farms(FreshManager, file)
       IN  /\ farms' = m.farms
           /\ farm_counter' = m.farm_counter
           /\ default_troops' = m.default_troops
           /\ raid_interval' = m.raid_interval
           /\ tribe' = m.tribe
           /\ server_speed' = m.server_speed
           /\ home_x' = m.home_x
           /\ home_y' = m.home_y
    /\ pc' = "idle"
    /\ lastOp' = "load"
    /\ UNCHANGED <<file, saved, clock, iter, idx, now, stop, stats, results,
                   log, passDue, passEnabled, passKind, runs, menuOps, issued>>
    /\ UNCHANGED nonRaidVars

InitPersist ==
    /\ InitRaidFrom(PersistFiles)
    /\ InitScan({0}, {ScanFilter(1, 50, TRUE, TRUE, TRUE, TRUE, <<>>, <<>>)})
    /\ InitEst
    /\ InitTasks
    /\ InitCrash

NextPersist ==
    \/ \E n \in FarmNames, f \in NewFarms, nt \in FarmNotes :
           AtMenu /\ menuOps < MaxPersistOps /\ add_farm(n, f[1], f[2], f[3], nt)
    \/ \E id \in FarmIds(farms) : AtMenu /\ menuOps < MaxPersistOps /\ remove_farm(id)
    \/ \E n \in FarmNames, f \in NewFarms, nt \in FarmNotes :
           menuOps < MaxPersistOps /\ AddFarmDies(n, f[1], f[2], f[3], nt)
    \/ \E id \in FarmIds(farms) : menuOps < MaxPersistOps /\ RemoveFarmDies(id)
    \/ Restart
    \/ Reboot

\* ========================================================================
\* Farm list management (interactive_bot.py, FARM LIST MANAGEMENT)
\* ========================================================================
\* names the operator can type for a new list
ListNames == { "default", "raids", "oases" }
\* where the operator puts a farm typed in by hand
ManualCoords == { <<1, 1>>, <<2, 2>> }
\* default troops the operator can configure for a new list
ListTroops == { EmptyDict, << <<"t1", 5>> >> }

CANNOT_DELETE_ACTIVE == "cannot delete active list"

ListByName(fl, name) == fl[CHOOSE i \in 1..Len(fl) : fl[i].name = name]

TotalFarms(fl) == SeqSum([i \in 1..Len(fl) |-> Len(fl[i].farms)])

\* createList(name, defaultTroops?): a new empty list with its own counter
create_farm_list(fl, name, troops) ==
    Append(fl, FarmList(name, <<>>, 0, troops))

\* deleteList rejects the active list
DeleteRejects_mut(active, name) == FALSE
DeleteRejects(active, name) == name = active

\* deleteList(name): the outcome and the lists after it; deleting a list
\* removes it with all its farms
delete_farm_list(fl, active, name) ==
    IF DeleteRejects(active, name)
    THEN [outcome |-> CANNOT_DELETE_ACTIVE, lists |-> fl]
    ELSE IF name \notin Range(get_farm_list_names(fl))
    THEN [outcome |-> "not found", lists |-> fl]
    ELSE [outcome |-> "deleted",
          lists |-> SelectSeq(fl, LAMBDA l : l.name # name)]

\* the id moveFarmToList gives the farm in the destination list
MovedId_mut(farm, dest) == farm.id
MovedId(farm, dest) == dest.farm_counter + 1

\* moveFarmToList(id, fromList, toList): removes from source, re-inserts
\* into destination with a new id from the destination list's counter
move_farm_to_list(fl, farm_id, from_list, to_list) ==
    LET names == Range(get_farm_list_names(fl))
    IN  IF \/ from_list \notin names
           \/ to_list \notin names
           \/ from_list = to_list
           \/ farm_id \notin FarmIds(ListByName(fl, from_list).farms)
        THEN [ok |-> FALSE, lists |-> fl, id |-> 0]
        ELSE LET farm == FarmById(ListByName(fl, from_list).farms, farm_id)
                 id == MovedId(farm, ListByName(fl, to_list))
             IN  [ok |-> TRUE, id |-> id,
                  lists |->
                    [i \in 1..Len(fl) |->
                       IF fl[i].name = from_list
                       THEN [fl[i] EXCEPT !.farms = DictDel(@, farm_id)]
                       ELSE IF fl[i].name = to_list
                       THEN [fl[i] EXCEPT
                               !.farm_counter = id,
                               !.farms = DictSet(@, [farm EXCEPT !.id = id])]
                       ELSE fl[i]]]

\* non_active = [n for n in names if n != self.farming.active_list_name]
non_active(names, active) == SelectSeq(names, LAMBDA n : n # active)

\* InteractiveBot.create_farm_list: a non-empty name, then the troops
CreateFarmList(name, troops) ==
    /\ name \notin Range(get_farm_list_names(farm_lists))
    /\ farm_lists' = create_farm_list(farm_lists, name, troops)
    /\ lists_file' = <<SaveLists(farm_lists', active_list_name, scan_history)>>
    /\ ListOp([op |-> "create_farm_list", name |-> name])
    /\ UNCHANGED <<active_list_name, scan_history>>

\* InteractiveBot.switch_farm_list: offered when more than one list exists
SwitchFarmList(name) ==
    /\ Len(get_farm_list_names(farm_lists)) > 1
    /\ name \in Range(get_farm_list_names(farm_lists))
    /\ active_list_name' = name
    /\ lists_file' = <<SaveLists(farm_lists, name, scan_history)>>
    /\ ListOp([op |-> "switch_active_list", name |-> name])
    /\ UNCHANGED <<farm_lists, scan_history>>

\* FarmListManager.delete_farm_list(name) with the name of any list
DeleteList(name) ==
    /\ name \in Range(get_farm_list_names(farm_lists))
    /\ LET r == delete_farm_list(farm_lists, active_list_name, name)
       IN  /\ farm_lists' = r.lists
           /\ lists_file' = IF r.outcome = "deleted"
                            THEN <<SaveLists(r.lists, active_list_name,
                                             scan_history)>>
                            ELSE lists_file
           /\ ListOp([op |-> "delete_farm_list", name |-> name,
                      outcome |-> r.outcome,
                      lists_before |-> farm_lists,
                      active_before |-> active_list_name,
                      file_before |-> lists_file])
    /\ UNCHANGED <<active_list_name, scan_history>>

\* InteractiveBot.delete_farm_list: only the lists of non_active are offered
DeleteFarmList(name) ==
    /\ name \in Range(non_active(get_farm_list_names(farm_lists),
                                 active_list_name))
    /\ DeleteList(name)

\* InteractiveBot.move_farm_to_list: a farm of the active list goes to one
\* of the other lists
MoveFarmToList(farm_id, to_list) ==
    /\ Len(get_farm_list_names(farm_lists)) >= 2
    /\ farm_id \in FarmIds(ListByName(farm_lists, active_list_name).farms)
    /\ to_list \in Range(non_active(get_farm_list_names(farm_lists),
                                    active_list_name))
    /\ LET r == move_farm_to_list(farm_lists, farm_id, active_list_name,
                                  to_list)
       IN  /\ farm_lists' = r.lists
           /\ lists_file' = <<SaveLists(r.lists, active_list_name,
                                        scan_history)>>
           /\ ListOp([op |-> "move_farm_to_list", id |-> farm_id,
                      from_list |-> active_list_name, to_list |-> to_list,
                      ok |-> r.ok, new_id |-> r.id,
                      lists_before |-> farm_lists])
    /\ UNCHANGED <<active_list_name, scan_history>>

\* remove_farm on the active list
RemoveFromActive(farm_id) ==
    /\ farm_id \in FarmIds(ListByName(farm_lists, active_list_name).farms)
    /\ farm_lists' = [i \in 1..Len(farm_lists) |->
                        IF farm_lists[i].name = active_list_name
                        THEN [farm_lists[i] EXCEPT !.farms = DictDel(@, farm_id)]
                        ELSE farm_lists[i]]
    /\ lists_file' = <<SaveLists(farm_lists', active_list_name, scan_history)>>
    /\ ListStep
    /\ UNCHANGED <<active_list_name, scan_history>>

NextLists ==
    \/ \E n \in ListNames, tr \in ListTroops :
           listOps < MaxMgmtOps /\ CreateFarmList(n, tr)
    \/ \E n \in ListNames : listOps < MaxMgmtOps /\ SwitchFarmList(n)
    \/ \E n \in ListNames : listOps < MaxMgmtOps /\ DeleteList(n)
    \/ \E n \in ListNames : listOps < MaxMgmtOps /\ DeleteFarmList(n)
    \/ \E id \in 1..MaxFarms, n \in ListNames :
           listOps < MaxMgmtOps /\ MoveFarmToList(id, n)
    \/ \E id \in 1..MaxFarms : listOps < MaxMgmtOps /\ RemoveFromActive(id)
    \/ \E n \in FarmNames, c \in ManualCoords :
           /\ listOps < MaxMgmtOps
           /\ TotalFarms(farm_lists) < MaxFarms
           /\ AddFarmToActive(n, c[1], c[2])

InitLists ==
    /\ InitRaid
    /\ file = <<>>
    /\ InitScan({0}, {ScanFilter(1, 50, TRUE, TRUE, TRUE, TRUE, <<>>, <<>>)})
    /\ InitEst
    /\ InitTasks
    /\ InitCrash

\* ========================================================================
\* estimate_travel_time called on its own
\* ========================================================================
\* targets lie at 0..MaxCoord on both axes
Positions == (0..MaxCoord) \X (0..MaxCoord)
Homes == { <<0, 0>>, <<2, 1>> }
\* "huns" is not a key of TROOP_SPEEDS
Tribes == { "gauls", "huns" }
ServerSpeeds == { 1, 2 }
\* troop compositions: none, one kind, a slow kind beside a faster one, a
\* kind with amount 0 beside a counted one, a key the table does not have
EstimateTroops ==
    { EmptyDict,
      << <<"t1", 10>> >>,
      << <<"t1", 5>>, <<"t8", 1>> >>,
      << <<"t8", 1>> >>,
      << <<"t4", 3>>, <<"t1", 0>> >>,
      << <<"t99", 4>>, <<"t6", 2>> >>,
      << <<"t6", 2>>, <<"t4", 7>>, <<"t5", 1>> >>,
      << <<"t1", 0>> >> }

\* the speed table estimate_travel_time looks the troop keys up in
TribeSpeeds(tr) ==
    IF tr \in DOMAIN TROOP_SPEEDS THEN TROOP_SPEEDS[tr]
    ELSE TROOP_SPEEDS["romans"]

\* the items of a troops dict that are in the table with amount > 0
Present(troops, tr) ==
    SelectSeq(troops, LAMBDA p : p[2] > 0 /\ p[1] \in DOMAIN TribeSpeeds(tr))

\* a troops dict reduced to its slowest present kinds
ReducedTroops(troops, tr) ==
    SelectSeq(Present(troops, tr), LAMBDA p :
        \A i \in 1..Len(Present(troops, tr)) :
            TribeSpeeds(tr)[p[1]] <= TribeSpeeds(tr)[Present(troops, tr)[i][1]])

\* the same kinds, one troop of each kind that has any
UnitTroops(troops) ==
    [i \in 1..Len(troops) |-> <<troops[i][1], IF troops[i][2] > 0 THEN 1 ELSE 0>>]

\* (farm.x - home_x) ** 2 + (farm.y - home_y) ** 2
Distance2(pos, home) ==
    (pos[1] - home[1]) * (pos[1] - home[1])
      + (pos[2] - home[2]) * (pos[2] - home[2])

\* two targets a and b, one troop composition, tribe, speed and home
EstimateInputs ==
    [a : Positions, b : Positions, troops : EstimateTroops, tribe : Tribes,
     server_speed : ServerSpeeds, home : Homes, done : {FALSE},
     ta : {0}, tb : {0}, reduced : {0}, unit : {0}]

InitEstimate ==
    /\ InitRaid
    /\ file = <<>>
    /\ InitScan({0}, {ScanFilter(1, 50, TRUE, TRUE, TRUE, TRUE, <<>>, <<>>)})
    /\ InitTasks
    /\ InitCrash
    /\ estimate \in EstimateInputs

\* estimate_travel_time(farm) for the two targets with the troops as given,
\* and for the first with the troops reduced and with the amounts set to 1
ApplyEstimate ==
    /\ ~estimate.done
    /\ LET e == estimate
           at(pos, troops) ==
               estimate_travel_time(
                   FarmTarget(1, "A", pos[1], pos[2], troops, ""),
                   e.tribe, e.server_speed, e.home[1], e.home[2])
       IN  estimate' =
             [e EXCEPT !.done = TRUE,
                       !.ta = at(e.a, e.troops),
                       !.tb = at(e.b, e.troops),
                       !.reduced = at(e.a, ReducedTroops(e.troops, e.tribe)),
                       !.unit = at(e.a, UnitTroops(e.troops))]
    /\ UNCHANGED <<raidVars, scanVars, taskVars, crashVars>>

NextEstimate == ApplyEstimate

\* ========================================================================
\* The task executor (modules/task_queue.py) beside the menu
\* ========================================================================
\* dataclass Task; every add_*_task of TaskExecutor passes repeat=True
Task(id, task_type) ==
    [id |-> id, task_type |-> task_type, status |-> "pending",
     repeat |-> TRUE, runs |-> 0]

\* a thread started on run_loop: at the head of its while loop
Thread == [pc |-> "loop", task |-> 0]

TaskIds(ts) == { ts[i].id : i \in 1..Len(ts) }

\* get_next_task: the first pending task as <<task>>, or <<>> for None
get_next_task(ts) ==
    LET pending == SelectSeq(ts, LAMBDA t : t.status = "pending")
    IN  IF pending = <<>> THEN <<>> ELSE <<pending[1]>>

\* stop_all: pending and running tasks become stopped
stop_all(ts) ==
    [i \in 1..Len(ts) |->
        IF ts[i].status \in {"pending", "running"}
        THEN [ts[i] EXCEPT !.status = "stopped"] ELSE ts[i]]

\* mark_task_done(task_id, success)
mark_task_done(ts, task_id, success) ==
    [i \in 1..Len(ts) |->
        IF ts[i].id # task_id THEN ts[i]
        ELSE [ts[i] EXCEPT
                !.runs = @ + 1,
                !.status = IF ts[i].repeat THEN "pending"
                           ELSE IF success THEN "completed" ELSE "failed"]]

\* the threads that drive the browser right now: a run_loop thread inside
\* execute_task, the foreground inside send_all_raids
BrowserUsers ==
    { i \in 1..Len(threads) : threads[i].pc = "executing" }
      \cup (IF fg = "raiding" THEN {0} ELSE {})

\* a choice of the background tasks menu
TaskMenuStep ==
    /\ fg = "menu"
    /\ taskOps < MaxTaskOps
    /\ taskOps' = taskOps + 1
    /\ UNCHANGED <<fg, raidVars, scanVars, estVars,
                   crashVars>>

\* TaskExecutor.start from the menu; "Already running" changes nothing
TaskStart ==
    /\ ~running
    /\ running' = TRUE
    /\ stop_flag' = FALSE
    /\ threads' = Append(threads, Thread)
    /\ TaskMenuStep
    /\ UNCHANGED <<tasks, task_counter>>

\* TaskExecutor.stop from the menu
TaskStop ==
    /\ running' = FALSE
    /\ stop_flag' = TRUE
    /\ tasks' = stop_all(tasks)
    /\ TaskMenuStep
    /\ UNCHANGED <<task_counter, threads>>

\* add_farming_task_to_queue
AddFarmingTask ==
    /\ task_counter' = task_counter + 1
    /\ tasks' = Append(tasks, Task(task_counter', "farm"))
    /\ TaskMenuStep
    /\ UNCHANGED <<running, stop_flag, threads>>

\* TaskQueue.remove_task from the menu
RemoveTask(task_id) ==
    /\ task_id \in TaskIds(tasks)
    /\ tasks' = SelectSeq(tasks, LAMBDA t : t.id # task_id)
    /\ TaskMenuStep
    /\ UNCHANGED <<task_counter, running, stop_flag, threads>>

\* TaskQueue.clear_completed from the menu
ClearCompleted ==
    /\ \E i \in 1..Len(tasks) :
         tasks[i].status \in {"completed", "stopped", "failed"}
    /\ tasks' = SelectSeq(tasks, LAMBDA t :
                   t.status \notin {"completed", "stopped", "failed"})
    /\ TaskMenuStep
    /\ UNCHANGED <<task_counter, running, stop_flag, threads>>

\* the menu's send_all_raids: the foreground begins to drive the browser
ForegroundRaidBegin ==
    /\ fg = "menu"
    /\ get_enabled_farms(farms) # <<>>
    /\ fg' = "raiding"
    /\ UNCHANGED <<tasks, task_counter, running, stop_flag, threads, taskOps,
                   raidVars, scanVars, estVars,
                   crashVars>>

\* ... and is back at the menu
ForegroundRaidEnd ==
    /\ fg = "raiding"
    /\ fg' = "menu"
    /\ UNCHANGED <<tasks, task_counter, running, stop_flag, threads, taskOps,
                   raidVars, scanVars, estVars,
                   crashVars>>

\* run_loop, head of the while loop: leave when the stop event is set, else
\* take the next pending task into execute_task (a loop without a pending
\* task sleeps a second and is here again)
ThreadLoop(i) ==
    /\ threads[i].pc = "loop"
    /\ IF stop_flag
       THEN /\ threads' = [threads EXCEPT ![i].pc = "exited"]
            /\ UNCHANGED tasks
       ELSE /\ get_next_task(tasks) # <<>>
            /\ get_next_task(tasks)[1].runs < MaxTaskRuns
            /\ LET task == get_next_task(tasks)[1]
               IN  /\ tasks' = [k \in 1..Len(tasks) |->
                                  IF tasks[k].id = task.id
                                  THEN [tasks[k] EXCEPT !.status = "running"]
                                  ELSE tasks[k]]
                   /\ threads' = [threads EXCEPT ![i].pc = "executing",
                                                 ![i].task = task.id]
    /\ UNCHANGED <<task_counter, running, stop_flag, fg, taskOps,
                   raidVars, scanVars, estVars,
                   crashVars>>

\* execute_task returns: mark_task_done, then the wait for task.interval
ThreadDone(i, success) ==
    /\ threads[i].pc = "executing"
    /\ tasks' = mark_task_done(tasks, threads[i].task, success)
    /\ threads' = [threads EXCEPT ![i].pc = "waiting"]
    /\ UNCHANGED <<task_counter, running, stop_flag, fg, taskOps,
                   raidVars, scanVars, estVars,
                   crashVars>>

\* the interval is over, or the stop event cut it short
ThreadWake(i) ==
    /\ threads[i].pc = "waiting"
    /\ threads' = [threads EXCEPT ![i].pc = "loop", ![i].task = 0]
    /\ UNCHANGED <<tasks, task_counter, running, stop_flag, fg, taskOps,
                   raidVars, scanVars, estVars,
                   crashVars>>

NextTasks ==
    \/ TaskStart
    \/ TaskStop
    \/ AddFarmingTask
    \/ \E id \in TaskIds(tasks) : RemoveTask(id)
    \/ ClearCompleted
    \/ ForegroundRaidBegin
    \/ ForegroundRaidEnd
    \/ \E i \in 1..Len(threads) : ThreadLoop(i)
    \/ \E i \in 1..Len(threads), success \in BOOLEAN : ThreadDone(i, success)
    \/ \E i \in 1..Len(threads) : ThreadWake(i)

\* a farm list from an earlier session, the menu idle, no task queued
InitTaskSpec ==
    /\ InitRaid
    /\ file = <<PriorSession>>
    /\ InitScan({0}, {ScanFilter(1, 50, TRUE, TRUE, TRUE, TRUE, <<>>, <<>>)})
    /\ InitEst
    /\ InitTasks
    /\ InitCrash

\* ------------------------------------------------------------------------
\* Specifications
\* ------------------------------------------------------------------------
\* the raid loops
Spec == Init /\ [][NextRaid]_vars

\* the store and its persistence
SpecStore == Init /\ [][NextStore]_vars

\* the scanner
SpecScan == InitScanner /\ [][NextScan]_vars

\* farm list management
SpecLists == InitLists /\ [][NextLists]_vars

\* the travel time estimate
SpecEstimate == InitEstimate /\ [][NextEstimate]_vars

\* the task executor beside the menu
SpecTasks == InitTaskSpec /\ [][NextTasks]_vars

\* the loops and the stop key; the thread that runs a loop keeps running
SpecStop ==
    /\ InitStop
    /\ [][NextStop]_vars
    /\ WF_vars(RaidLoopStep)
    /\ WF_vars(ScanLoopStep)

\* the coordinates of a scan
SpecSpiral == InitSpiral /\ [][NextSpiral]_vars

\* the store with processes that die inside save_farms
SpecPersist == InitPersist /\ [][NextPersist]_vars

\* ========================================================================
\* Properties of the raid loops and the store
\* ========================================================================
LogIds == [i \in 1..Len(log) |-> log[i].id]

\* a pass of auto_raid_loop has visited all its farms
PassComplete == pc \in {"while", "sleep"} /\ passKind \in {"sweep", "poll"}

\* C1: when a scheduling pass of auto_raid_loop is over (the initial sweep or
\* a later poll pass), the dispatches it attempted are exactly the enabled
\* targets with a non-empty troop mapping whose next_raid_at was <= now when
\* the pass began (0 included), once each and in insertion order.
C1_OneDispatchPerDueTarget == PassComplete => LogIds = passDue

\* C2: every successful dispatch whose confirmation page gave a one-way time
\* t > 0 left next_raid_at = dispatchTime + 2t and travel_time = 2t.
C2_AuthoritativeTimeSchedules ==
    \A i \in 1..Len(log) :
        (log[i].ok /\ log[i].reading > 0)
            => /\ log[i].next_raid_at = log[i].t + 2 * log[i].reading
               /\ log[i].travel_time = 2 * log[i].reading

\* C2 witness: a successful dispatch with a page reading replaced a cached
\* travel_time that differed from it.
C2_Witness ==
    \E i \in 1..Len(log) :
        /\ log[i].ok
        /\ log[i].reading = 3
        /\ log[i].cached > 0
        /\ log[i].cached # 6
        /\ log[i].next_raid_at = log[i].t + 6

\* C3: every failed dispatch left next_raid_at = dispatchTime + 60.
C3_FailureSchedulesRetry ==
    \A i \in 1..Len(log) :
        ~log[i].ok => log[i].next_raid_at = log[i].t + RETRY_DELAY

\* C4: every dispatch of send_all_raids and of auto_raid_loop went to a
\* target whose enabled flag was true when send_raid was called.
C4_NoDispatchToDisabled == \A i \in 1..Len(log) : log[i].enabled

\* C4 witness: a poll pass has finished with a dispatch, and a target that
\* was raided before, was disabled between two passes and is due was left out.
C4_Witness ==
    /\ pc = "sleep"
    /\ passKind = "poll"
    /\ log # <<>>
    /\ \E i \in 1..Len(farms) :
          /\ ~farms[i].enabled
          /\ farms[i].troops # EmptyDict
          /\ farms[i].next_raid_at > 0
          /\ farms[i].next_raid_at <= now
          /\ farms[i].id \notin Range(LogIds)

SendAllReturned == pc = "idle" /\ lastOp = "send_all"

\* C5: when send_all_raids returns, it has dispatched exactly once, in order,
\* to every target that was enabled with a non-empty troop mapping when it
\* was called, to no other target, and its counts are sent = successful
\* dispatches, failed = failed dispatches, skipped = enabled targets with an
\* empty troop mapping, so that sent + failed + skipped = enabled targets.
C5_SendAllDispatchesAndCounts ==
    SendAllReturned =>
        /\ LogIds = passDue
        /\ results.sent = Cardinality({ i \in 1..Len(log) : log[i].ok })
        /\ results.failed = Cardinality({ i \in 1..Len(log) : ~log[i].ok })
        /\ results.skipped = passEnabled - Len(passDue)
        /\ results.sent + results.failed + results.skipped = passEnabled

\* C5 witness: a wave returned after dispatching to a target whose
\* next_raid_at lay in the future and after skipping an empty-troop target.
C5_Witness ==
    /\ SendAllReturned
    /\ results.skipped > 0
    /\ results.sent > 0
    /\ \E i \in 1..Len(log) : log[i].ok /\ log[i].scheduled > log[i].t

\* C10: after a restart the loaded store equals, field by field, the store
\* as it was at the last save_farms.
C10_SaveLoadRoundTrip ==
    (lastOp = "load" /\ saved # <<>>) => CurrentManager = saved[1]

\* C10 witness: a store was reloaded that holds a disabled farm, a farm with
\* troops = {}, a raided farm, and a tribe, speed and home other than the
\* defaults.
C10_Witness ==
    /\ lastOp = "load"
    /\ saved # <<>>
    /\ tribe = "gauls"
    /\ server_speed = 2
    /\ home_x = 3
    /\ farm_counter > 0
    /\ \E i \in 1..Len(farms) : ~farms[i].enabled
    /\ \E i \in 1..Len(farms) : farms[i].troops = EmptyDict
    /\ \E i \in 1..Len(farms) : farms[i].raids_sent > 0 /\ farms[i].next_raid_at > 0

\* ========================================================================
\* Properties of the scanner
\* ========================================================================
\* C6: while and after scan_area runs again at once with the centre and
\* radius of a scan that ran to completion, and the history was not cleared,
\* it has classified no tile and added no farm: scanned = 0 and added = 0.
C6_RescanIsIdempotent ==
    rerun => (scan_stats.scanned = 0 /\ scan_stats.added = 0)

\* C7: every coordinate scan_area passed to _parse_tile is in the scan
\* history, whether _parse_tile returned a tile or None.
C7_ClassifiedIsRecorded ==
    \A i \in 1..Len(scan_log) :
        scan_log[i].classified
            => coord_key(scan_log[i].x, scan_log[i].y) \in Range(scan_history)

\* C8: a coordinate that was a farm of a list other than the target list
\* when the loop reached it was skipped before classification:
\* skipped_duplicate went up by one, _parse_tile did not run, scanned and
\* added kept their values and no further farm appeared at the coordinate.
C8_CrossListDuplicateSkipped ==
    \A i \in 1..Len(scan_log) :
        LET e == scan_log[i]
        IN  (e.existing # <<>> /\ e.existing[1] # scan_args.target_list)
                => /\ ~e.classified
                   /\ e.after.skipped_duplicate = e.before.skipped_duplicate + 1
                   /\ e.after.scanned = e.before.scanned
                   /\ e.after.added = e.before.added
                   /\ e.at_after = e.at_before

\* C8 witness: the scan skipped a coordinate that is a farm of another list
\* and is not in the scan history, and at another coordinate it added a farm.
C8_Witness ==
    /\ \E i \in 1..Len(scan_log) :
          /\ scan_log[i].existing # <<>>
          /\ scan_log[i].existing[1] # scan_args.target_list
          /\ coord_key(scan_log[i].x, scan_log[i].y) \notin Range(scan_history)
          /\ scan_log[i].at_after = 1
    /\ scan_stats.added > 0

OtherFiltersPass(tile, scan_filter) ==
    /\ TypeIncluded(tile, scan_filter)
    /\ NatarsAllowed(tile, scan_filter)
    /\ NotExcluded(tile.alliance, scan_filter.exclude_alliances)
    /\ NotExcluded(tile.player_name, scan_filter.exclude_players)

\* the iteration added a farm at its coordinate to the target list
Added(e) ==
    /\ e.after.added = e.before.added + 1
    /\ e.at_after = e.at_before + 1
    /\ e.in_target

NotAdded(e) == e.after.added = e.before.added /\ e.at_after = e.at_before

\* C9: a classified tile with population > max_population and population > 0
\* was not added, whatever the other filter fields are; a classified village
\* or oasis with population 0 was added when type inclusion, Natar
\* exclusion, alliance exclusion and player exclusion all pass.
C9_PopulationFilter ==
    \A i \in 1..Len(scan_log) :
        LET e == scan_log[i]
            f == scan_args.scan_filter
        IN  (e.classified /\ e.result # <<>>) =>
              LET tile == e.result[1]
              IN  /\ (tile.population > f.max_population /\ tile.population > 0)
                        => NotAdded(e)
                  /\ (/\ tile.tile_type \in {"village", "oasis_unoccupied",
                                              "oasis_occupied"}
                      /\ tile.population = 0
                      /\ OtherFiltersPass(tile, f))
                        => Added(e)

\* C9 witness: one scan left out a tile of population 80 that passes every
\* other filter and added a tile of population 0.
C9_Witness ==
    /\ \E i \in 1..Len(scan_log) :
          /\ scan_log[i].classified
          /\ scan_log[i].result # <<>>
          /\ scan_log[i].result[1].population = 80
          /\ OtherFiltersPass(scan_log[i].result[1], scan_args.scan_filter)
          /\ NotAdded(scan_log[i])
    /\ \E i \in 1..Len(scan_log) :
          /\ scan_log[i].classified
          /\ scan_log[i].result # <<>>
          /\ scan_log[i].result[1].population = 0
          /\ scan_log[i].result[1].tile_type = "village"
          /\ Added(scan_log[i])

\* ========================================================================
\* Properties of farm list management
\* ========================================================================
\* C11: deleting the active list fails with the "cannot delete active list"
\* outcome and leaves the lists, their farms, the active list and the saved
\* file as they were; the active list name always names an existing list.
C11_DeleteActiveRejected ==
    /\ active_list_name \in Range(get_farm_list_names(farm_lists))
    /\ (list_op.op = "delete_farm_list" /\ list_op.name = list_op.active_before)
         => /\ list_op.outcome = CANNOT_DELETE_ACTIVE
            /\ list_op.outcome # "deleted"
            /\ farm_lists = list_op.lists_before
            /\ active_list_name = list_op.active_before
            /\ lists_file = list_op.file_before

\* the active list, holding a farm, was asked to be deleted while another
\* list existed
C11_Witness ==
    /\ list_op.op = "delete_farm_list"
    /\ list_op.name = list_op.active_before
    /\ Len(list_op.lists_before) >= 2
    /\ ListByName(list_op.lists_before, list_op.name).farms # <<>>

\* what a completed move did: the lists before and after
MoveDone == list_op.op = "move_farm_to_list" /\ list_op.ok
MoveSourceBefore == ListByName(list_op.lists_before, list_op.from_list)
MoveDestBefore == ListByName(list_op.lists_before, list_op.to_list)
MoveSourceAfter == ListByName(farm_lists, list_op.from_list)
MoveDestAfter == ListByName(farm_lists, list_op.to_list)
MovedFarm == FarmById(MoveSourceBefore.farms, list_op.id)

\* a move is a delete plus an insert that keeps name, coordinates and troops
MoveIsDeleteInsert ==
    /\ list_op.id \notin FarmIds(MoveSourceAfter.farms)
    /\ Len(MoveSourceAfter.farms) = Len(MoveSourceBefore.farms) - 1
    /\ FarmIds(MoveDestAfter.farms) \ FarmIds(MoveDestBefore.farms)
         = { list_op.new_id }
    /\ Len(MoveDestAfter.farms) = Len(MoveDestBefore.farms) + 1
    /\ LET moved == FarmById(MoveDestAfter.farms, list_op.new_id)
       IN  /\ moved.name = MovedFarm.name
           /\ moved.x = MovedFarm.x
           /\ moved.y = MovedFarm.y
           /\ moved.troops = MovedFarm.troops
    /\ \A f \in Range(MoveDestBefore.farms) : f \in Range(MoveDestAfter.farms)
    /\ TotalFarms(farm_lists) = TotalFarms(list_op.lists_before)

\* C17 as stated: after a move the farm is gone from the source, the
\* destination holds one new farm with the same name, coordinates and troops,
\* its id is not the original id and not an id used in the destination, and
\* the number of farms over all lists is unchanged.
C17_MoveGivesDifferentId ==
    MoveDone => /\ MoveIsDeleteInsert
                /\ list_op.new_id # list_op.id
                /\ list_op.new_id \notin FarmIds(MoveDestBefore.farms)

\* C17 amended: the id is the next of the destination list's counter, above
\* every id the destination holds; it can be the number the farm had in the
\* source list.
C17_MoveAllocatesFromDestination ==
    MoveDone => /\ MoveIsDeleteInsert
                /\ list_op.new_id = MoveDestBefore.farm_counter + 1
                /\ MoveDestAfter.farm_counter = list_op.new_id
                /\ \A id \in FarmIds(MoveDestBefore.farms) : id < list_op.new_id

\* a farm was moved into a list that already held farms and got another id
\* than it had
C17_Witness ==
    /\ MoveDone
    /\ MoveDestBefore.farms # <<>>
    /\ list_op.new_id # list_op.id

\* ========================================================================
\* Properties of farm ids
\* ========================================================================
\* C12: farm ids are never reused.  Every add_farm returns an id greater
\* than every id returned before it, also after a removal and after a reload
\* of the file; the farms of the list have pairwise distinct ids, none above
\* the counter.
C12_IdsNeverReused ==
    /\ \A i, j \in 1..Len(issued) : i < j => issued[i].id < issued[j].id
    /\ \A i, j \in 1..Len(farms) : i # j => farms[i].id # farms[j].id
    /\ \A i \in 1..Len(farms) : farms[i].id <= farm_counter

\* add_farm was called right after a reload, when the farm of an earlier id
\* had been removed
C12_Witness ==
    \E j \in 1..Len(issued) : issued[j].gone # {} /\ issued[j].after_load

\* ========================================================================
\* Properties of the travel time estimate
\* ========================================================================
\* C13: the estimate is monotonic in distance.  With the same troops, tribe,
\* server speed and home, a target at least as far from home as another
\* never gets the smaller estimate.
C13_EstimateMonotonic ==
    (estimate # <<>> /\ estimate.done
       /\ Distance2(estimate.b, estimate.home)
            >= Distance2(estimate.a, estimate.home))
      => estimate.tb >= estimate.ta

\* two targets whose estimates differ by less than the next whole distance
\* would give: b is farther and its estimate is larger, both above 0
C13_Witness ==
    /\ estimate # <<>> /\ estimate.done
    /\ Distance2(estimate.b, estimate.home)
         = Distance2(estimate.a, estimate.home) + 1
    /\ estimate.tb > estimate.ta
    /\ estimate.ta > 0

\* C14: the estimate depends on the slowest present troop kind only.  The
\* troops reduced to the slowest kinds with amount > 0 that are in the speed
\* table give the same estimate, and so do the same kinds with amount 1.
C14_SlowestKindDecides ==
    (estimate # <<>> /\ estimate.done)
      => /\ estimate.ta = estimate.reduced
         /\ estimate.ta = estimate.unit

\* a composition with a kind that does not count beside a slower or faster
\* one that does, at a distance above 0
C14_Witness ==
    /\ estimate # <<>> /\ estimate.done
    /\ estimate.ta > 0
    /\ Len(ReducedTroops(estimate.troops, estimate.tribe)) = 1
    /\ Len(estimate.troops) >= 2
    /\ \E i \in 1..Len(estimate.troops) : estimate.troops[i][2] = 0

\* ========================================================================
\* Properties of cancellation
\* ========================================================================
\* C15: once the stop flag is set, auto_raid_loop starts no further dispatch,
\* in the initial sweep and in the later passes, and scan_area classifies no
\* further tile.
C15_NoWorkAfterStop ==
    /\ passKind \in {"sweep", "poll"}
         => \A i \in 1..Len(log) : ~log[i].stopped
    /\ \A i \in 1..Len(scan_log) :
         scan_log[i].classified => ~scan_log[i].stopped

\* ========================================================================
\* Properties of the task executor
\* ========================================================================
\* C16: the browser is used strictly sequentially.  At no time do two of
\* the foreground's raid and the run_loop threads' tasks drive the browser
\* together.
C16_BrowserUsedSequentially == Cardinality(BrowserUsers) <= 1

\* ========================================================================
\* Properties of send_raid's schedule
\* ========================================================================
\* the travel_time of a confirmed raid came from the estimate: it changed,
\* and not to twice the page's duration
UsedEstimate(e) ==
    /\ e.travel_time # e.cached
    /\ ~(e.one_way # None /\ e.travel_time = 2 * e.one_way)

\* C18 as stated: a duration read from the confirmation page always becomes
\* the cached travel_time; the estimate is used only when the page gave no
\* duration and the cached travel_time is 0; a cached travel_time above 0 is
\* never replaced by an estimate.
C18_ReadingAlwaysOverrides ==
    \A i \in 1..Len(log) :
        log[i].ok =>
            /\ log[i].one_way # None => log[i].travel_time = 2 * log[i].one_way
            /\ UsedEstimate(log[i])
                 => /\ log[i].one_way = None
                    /\ log[i].cached = 0
                    /\ log[i].travel_time = log[i].estimated
            /\ (log[i].one_way = None /\ log[i].cached # 0)
                 => log[i].travel_time = log[i].cached

\* the page gave a duration send_raid takes: one above 0:00:00
Usable(e) == e.one_way # None /\ e.one_way > 0

\* C18 amended: a duration above 0 read from the confirmation page always
\* becomes the cached travel_time; a duration of 0 counts as none.  Without
\* a usable duration a cached travel_time above 0 stays, and only a cached
\* travel_time of 0 is replaced by the estimate.
C18_PositiveReadingOverrides ==
    \A i \in 1..Len(log) :
        log[i].ok =>
            /\ Usable(log[i]) => log[i].travel_time = 2 * log[i].one_way
            /\ (~Usable(log[i]) /\ log[i].cached # 0)
                 => log[i].travel_time = log[i].cached
            /\ (~Usable(log[i]) /\ log[i].cached = 0)
                 => log[i].travel_time = log[i].estimated

\* a confirmed raid without a usable duration kept its cached travel_time
\* although the estimate was another, and one with a cached 0 took the estimate
C18_Witness ==
    /\ \E i \in 1..Len(log) :
         /\ log[i].ok /\ ~Usable(log[i])
         /\ log[i].cached > 0 /\ log[i].estimated > 0
         /\ log[i].estimated # log[i].cached
         /\ log[i].travel_time = log[i].cached
    /\ \E i \in 1..Len(log) :
         /\ log[i].ok /\ ~Usable(log[i])
         /\ log[i].cached = 0
         /\ log[i].travel_time = log[i].estimated
         /\ log[i].estimated > 0

\* C19: every dispatch attempt sets next_raid_at: to dispatchTime +
\* travel_time when send_raid succeeded, also when the travel time is unknown
\* (0), and to dispatchTime + 60 when it failed.
C19_EveryDispatchSchedules ==
    \A i \in 1..Len(log) :
        /\ log[i].ok => log[i].next_raid_at = log[i].t + log[i].travel_time
        /\ ~log[i].ok => log[i].next_raid_at = log[i].t + RETRY_DELAY

\* C20: next_raid_at of an existing target changes only inside a dispatch
\* attempt on that target; no store operation, no due check and no reload
\* changes it.
C20_OnlyDispatchSchedules ==
    [][\A id \in FarmIds(farms) \cap FarmIds(farms') :
          FarmById(farms', id).next_raid_at # FarmById(farms, id).next_raid_at
            => /\ Len(log') = Len(log) + 1
               /\ log'[Len(log')].id = id]_vars

\* a scheduled target was disabled from the menu and kept its schedule
C20_Witness ==
    \E i \in 1..Len(farms) :
        /\ ~farms[i].enabled
        /\ farms[i].next_raid_at > StartClock

\* ------------------------------------------------------------------------
\* C21: load_farms never raises.  Right after a load (at construction or at
\* a restart) of a missing file the store is the freshly constructed one;
\* of a file that does not load (the text stops early, or an entry of
\* 'farms' is no FarmTarget) the store has no farms, not even the entries
\* read before the failure, and the warning was printed.  An add_farm that
\* follows such a load puts exactly the new farm into the store and saves a
\* file that loads back to the store.
\* ------------------------------------------------------------------------
JustLoaded == lastOp \in {"init", "load"} /\ pc = "idle"

DoesNotLoad(f) ==
    /\ f # <<>>
    /\ \/ Len(f) = 2
       \/ \E i \in 1..Len(f[1].farms) :
              ~({"id", "name", "x", "y", "troops"} \subseteq DOMAIN f[1].farms[i])

AddFarmReturned ==
    /\ lastOp' = "menu"
    /\ Len(issued') = Len(issued) + 1

C21_LoadNeverCrashes ==
    /\ [](JustLoaded /\ file = <<>> => CurrentManager = FreshManager)
    /\ [](JustLoaded /\ DoesNotLoad(file) =>
              /\ farms = <<>>
              /\ LoadFarms(FreshManager, file).printed = "Could not load farms")
    /\ [][JustLoaded /\ DoesNotLoad(file) /\ AddFarmReturned =>
              /\ Len(farms') = 1
              /\ farms'[1].id = issued'[Len(issued')].id
              /\ Len(file') = 1
              /\ load_farms(FreshManager, file') = CurrentManager']_vars

\* the hand-edited file was loaded (its counter 2 was read, its first entry
\* was not kept) and a farm was added afterwards
C21_Witness ==
    /\ Len(issued) = 1
    /\ issued[1].id = 3
    /\ Len(farms) = 1
    /\ farms[1].id = 3
    /\ Len(file) = 1
    /\ Len(file[1].farms) = 1

\* ------------------------------------------------------------------------
\* C25: a process that dies inside save_farms leaves the file holding the
\* whole previous contents or the whole new contents.
\* ------------------------------------------------------------------------
ManagerData(m) ==
    SaveData(m.farms, m.farm_counter, m.default_troops, m.raid_interval,
             m.tribe, m.server_speed, m.home_x, m.home_y)

C25_SaveIsAtomic ==
    lastOp = "crash" => file \in { file_before, <<ManagerData(saved[1])>> }

\* ------------------------------------------------------------------------
\* C22: the queue is served round-robin: when a run_loop thread takes a task
\* into execute_task, no other pending task has been run fewer times than
\* the task taken (so no task runs a second time before every other pending
\* task has run once).
\* ------------------------------------------------------------------------
TaskById(ts, task_id) == SelectSeq(ts, LAMBDA t : t.id = task_id)[1]

Picked(i) == threads[i].pc = "loop" /\ threads'[i].pc = "executing"

C22_RoundRobin ==
    [][\A i \in 1..Len(threads) :
          Picked(i) =>
              \A k \in 1..Len(tasks) :
                  (tasks[k].status = "pending" /\ tasks[k].id # threads'[i].task)
                      => tasks[k].runs >= TaskById(tasks, threads'[i].task).runs]_vars

\* ------------------------------------------------------------------------
\* C28: whatever start and stop calls were made, at most one run_loop thread
\* goes on executing tasks (while the stop event is clear, at most one
\* thread has not left its loop) and at most one task has status RUNNING.
\* ------------------------------------------------------------------------
LiveLoops == { i \in 1..Len(threads) : threads[i].pc # "exited" }

RunningTasks == { i \in 1..Len(tasks) : tasks[i].status = "running" }

C28_OneExecutorLoop ==
    /\ ~stop_flag => Cardinality(LiveLoops) <= 1
    /\ Cardinality(RunningTasks) <= 1

\* ------------------------------------------------------------------------
\* C29: once TaskExecutor.stop has returned and left no task PENDING or
\* RUNNING, no task is PENDING or RUNNING until a task is added.
\* ------------------------------------------------------------------------
Stopped ==
    /\ stop_flag
    /\ ~running
    /\ \A i \in 1..Len(tasks) : tasks[i].status \notin {"pending", "running"}

C29_StopIsSticky ==
    [][(Stopped /\ Len(tasks') <= Len(tasks))
          => \A i \in 1..Len(tasks') :
                 tasks'[i].status \notin {"pending", "running"}]_vars

\* ------------------------------------------------------------------------
\* C23: in the sequence _generate_spiral_coords(center, R) the Chebyshev
\* distance to the centre starts at 1 and never decreases, so every tile of
\* ring r comes before any tile of ring r + 1.
\* ------------------------------------------------------------------------
Abs(n) == IF n < 0 THEN -n ELSE n

Chebyshev(c) ==
    LET dx == Abs(c[1] - scan_args.center_x)
        dy == Abs(c[2] - scan_args.center_y)
    IN  IF dx > dy THEN dx ELSE dy

C23_RingByRing ==
    coords # <<>> =>
        /\ Chebyshev(coords[1]) = 1
        /\ \A i \in 1..(Len(coords) - 1) :
               Chebyshev(coords[i]) <= Chebyshev(coords[i + 1])
        /\ \A i, j \in 1..Len(coords) :
               Chebyshev(coords[i]) < Chebyshev(coords[j]) => i < j

\* three rings around a centre off the origin were generated
C23_Witness ==
    /\ scan_args.scan_filter.radius = 3
    /\ scan_args.center_x = 2
    /\ scan_args.center_y = -1
    /\ Len(coords) > 24
    /\ Chebyshev(coords[Len(coords)]) = 3

\* ------------------------------------------------------------------------
\* C30: _generate_spiral_coords(center, R) holds every coordinate at
\* Chebyshev distance 1..R from the centre exactly once and not the centre;
\* its length is (2R+1)^2 - 1, the tile count of estimate_scan_time(R).
\* ------------------------------------------------------------------------
C30_RingCoverage ==
    coords # <<>> =>
        LET R == scan_args.scan_filter.radius
            cx == scan_args.center_x
            cy == scan_args.center_y
            square == ((cx - R)..(cx + R)) \X ((cy - R)..(cy + R))
        IN  /\ { coords[i] : i \in 1..Len(coords) } = square \ { <<cx, cy>> }
            /\ \A i, j \in 1..Len(coords) : coords[i] = coords[j] => i = j
            /\ Len(coords) = (2 * R + 1) * (2 * R + 1) - 1
            /\ Len(coords) = estimate_scan_time(R).tile_count

\* two rings around a centre off the origin: 24 coordinates
C30_Witness ==
    /\ scan_args.scan_filter.radius = 2
    /\ scan_args.center_x = -3
    /\ scan_args.center_y = 1
    /\ Len(coords) = 24
    /\ <<-5, 3>> \in { coords[i] : i \in 1..Len(coords) }

\* ------------------------------------------------------------------------
\* C24: a tile whose _parse_tile gives None is counted in errors and adds
\* nothing, and the scan goes on: the loop visits the coordinates one after
\* the other, and a scan that was not interrupted has visited all of them.
\* ------------------------------------------------------------------------
ParseFailed(e) == e.classified /\ e.result = <<>>

C24_ErrorsDoNotAbort ==
    /\ \A k \in 1..Len(scan_log) :
           ParseFailed(scan_log[k]) =>
               /\ scan_log[k].after.errors = scan_log[k].before.errors + 1
               /\ scan_log[k].after.added = scan_log[k].before.added
               /\ scan_log[k].at_after = scan_log[k].at_before
               /\ ~scan_log[k].in_target
    /\ scan_pc = "loop" =>
           /\ Len(scan_log) = scan_i - 1
           /\ \A k \in 1..Len(scan_log) :
                  <<scan_log[k].x, scan_log[k].y>> = coords[k]
    /\ (scan_pc = "menu" /\ prev_scan.completed /\ scan_log # <<>>) =>
           Len(scan_log) = Len(coords)

\* a scan that ran to its end although the page of its second tile failed
C24_Witness ==
    /\ scan_pc = "menu"
    /\ prev_scan.completed
    /\ Len(scan_log) = 8
    /\ ParseFailed(scan_log[2])
    /\ scan_log[8].classified
    /\ scan_stats.errors = 1

\* ------------------------------------------------------------------------
\* C27: the statistics of scan_area account for every coordinate the loop
\* visited: skipped_duplicate + scanned is the number of coordinates
\* visited, scanned = errors + tiles found empty or wilderness +
\* skipped_filter + found, and added <= found.
\* ------------------------------------------------------------------------
NothingThere ==
    { k \in 1..Len(scan_log) :
        /\ scan_log[k].classified
        /\ scan_log[k].result # <<>>
        /\ scan_log[k].result[1].tile_type \in {"empty", "wilderness"} }

C27_StatsAccountForTiles ==
    /\ scan_stats.skipped_duplicate + scan_stats.scanned = Len(scan_log)
    /\ scan_stats.scanned = scan_stats.errors + Cardinality(NothingThere)
                               + scan_stats.skipped_filter + scan_stats.found
    /\ scan_stats.added <= scan_stats.found

\* the end of a scan that met a coordinate already in a list, a page that
\* failed, tiles with nothing there, a tile the filter refused and a match
C27_Witness ==
    /\ scan_pc = "menu"
    /\ Len(scan_log) = 8
    /\ scan_stats.skipped_duplicate >= 1
    /\ scan_stats.errors = 1
    /\ Cardinality(NothingThere) >= 1
    /\ scan_stats.skipped_filter >= 1
    /\ scan_stats.added >= 1

\* ------------------------------------------------------------------------
\* C26: once the stop flag is set, auto_raid_loop returns and scan_area
\* returns, whatever is still due or unscanned (in the model a dispatch
\* that would pass the end of the modelled time cannot be taken; the loop
\* then rests before it); and auto_raid_loop, once past its check for
\* enabled farms, returns only with the stop flag set.
\* ------------------------------------------------------------------------
InRaidLoop == pc \in {"sweep", "while", "pass", "sleep"}

OutOfTime == InRaidLoop /\ ~ENABLED RaidLoopStep

C26_StopTerminates ==
    /\ (InRaidLoop /\ stop) ~> (pc = "idle" \/ OutOfTime)
    /\ (scan_pc = "loop" /\ scan_stop) ~> (scan_pc = "menu")
    /\ [][(InRaidLoop /\ pc' = "idle") => stop]_vars

\* auto_raid_loop has returned after the key was pressed during its sweep,
\* with a farm still due
C26_Witness ==
    /\ pc = "idle"
    /\ lastOp = "auto_raid"
    /\ stop
    /\ stats.total_sent + stats.total_failed >= 1
    /\ \E i \in 1..Len(farms) :
           farms[i].enabled /\ farms[i].next_raid_at <= clock


====
